---- MODULE Spec2Model ----
(***************************************************************************)
(* BD Jobs Dashboard (src/app.py): the text classifiers, the fetch/filter  *)
(* pipeline behind the "Fetch Jobs" button and the web-discovery crawler.  *)
(*                                                                         *)
(* A Python str is a sequence of code points (ASCII here): "TX" is         *)
(* <<84, 88>>.  Every literal below carries its text in a comment.         *)
(***************************************************************************)
EXTENDS Integers, Sequences, FiniteSets, TLC

(***************************************************************************)
(* Text primitives: str.lower, str.strip, `in`, the regex classes \s, \w,  *)
(* \b, and normalize_text.                                                 *)
(***************************************************************************)

\* Python None (a missing JSON field); no str holds code point -1.
None == <<-1>>

\* "" (the empty str)
EMPTY == <<>>

\* \s of the re module on ASCII text: tab, LF, VT, FF, CR, space.
IsSpace(c) == c \in {9, 10, 11, 12, 13, 32}

\* \w of the re module on ASCII text: digits, letters, underscore.
IsWord(c) == (c \in 48..57) \/ (c \in 65..90) \/ (c \in 97..122) \/ c = 95

LowerCh(c) == IF c \in 65..90 THEN c + 32 ELSE c

\* str.lower()
Lower(s) == [i \in 1..Len(s) |-> LowerCh(s[i])]

\* sub in s
Contains(sub, s) ==
    \/ sub = EMPTY
    \/ \E i \in 0..(Len(s) - Len(sub)) :
           s[i + 1] = sub[1] /\ SubSeq(s, i + 1, i + Len(sub)) = sub

\* s.startswith(p) / s.endswith(p)
StartsWith(s, p) == Len(p) <= Len(s) /\ SubSeq(s, 1, Len(p)) = p
EndsWith(s, p) == Len(p) <= Len(s) /\ SubSeq(s, Len(s) - Len(p) + 1, Len(s)) = p

\* str.strip(): leading and trailing whitespace removed.
RECURSIVE LStrip(_)
LStrip(s) == IF s # EMPTY /\ IsSpace(s[1]) THEN LStrip(Tail(s)) ELSE s
RECURSIVE RStrip(_)
RStrip(s) == IF s # EMPTY /\ IsSpace(s[Len(s)]) THEN RStrip(SubSeq(s, 1, Len(s) - 1)) ELSE s
Strip(s) == RStrip(LStrip(s))

\* re.sub(r"\s+", " ", s): every maximal run of whitespace becomes one space.
RECURSIVE CollapseSpace(_)
CollapseSpace(s) ==
    IF s = EMPTY THEN EMPTY
    ELSE IF IsSpace(s[1])
         THEN IF Len(s) > 1 /\ IsSpace(s[2])
              THEN CollapseSpace(Tail(s))
              ELSE <<32>> \o CollapseSpace(Tail(s))
         ELSE <<s[1]>> \o CollapseSpace(Tail(s))

normalize_text(s) == IF s = None THEN EMPTY ELSE Strip(CollapseSpace(s))

\* sep.join(parts)
RECURSIVE Join(_, _)
Join(sep, parts) ==
    IF parts = <<>> THEN EMPTY
    ELSE IF Len(parts) = 1 THEN parts[1]
    ELSE parts[1] \o sep \o Join(sep, Tail(parts))

\* \b at gap p of s (between s[p] and s[p+1]; 0 is the start, Len(s) the end):
\* exactly one side is a word character.
WordCharAt(s, i) == i >= 1 /\ i <= Len(s) /\ IsWord(s[i])
Boundary(s, p) == WordCharAt(s, p) # WordCharAt(s, p + 1)

\* re.search(rf"\b{w}\b", s) for a literal w, case-sensitive.
SearchWord(w, s) ==
    \E i \in 0..(Len(s) - Len(w)) :
        /\ s[i + 1] = w[1]
        /\ SubSeq(s, i + 1, i + Len(w)) = w
        /\ Boundary(s, i)
        /\ Boundary(s, i + Len(w))

(***************************************************************************)
(* Geography classifier.                                                   *)
(***************************************************************************)

US_STATE_ABBR ==
    { <<65, 76>>,   \* "AL"
      <<65, 75>>,   \* "AK"
      <<65, 90>>,   \* "AZ"
      <<65, 82>>,   \* "AR"
      <<67, 65>>,   \* "CA"
      <<67, 79>>,   \* "CO"
      <<67, 84>>,   \* "CT"
      <<68, 69>>,   \* "DE"
      <<70, 76>>,   \* "FL"
      <<71, 65>>,   \* "GA"
      <<72, 73>>,   \* "HI"
      <<73, 68>>,   \* "ID"
      <<73, 76>>,   \* "IL"
      <<73, 78>>,   \* "IN"
      <<73, 65>>,   \* "IA"
      <<75, 83>>,   \* "KS"
      <<75, 89>>,   \* "KY"
      <<76, 65>>,   \* "LA"
      <<77, 69>>,   \* "ME"
      <<77, 68>>,   \* "MD"
      <<77, 65>>,   \* "MA"
      <<77, 73>>,   \* "MI"
      <<77, 78>>,   \* "MN"
      <<77, 83>>,   \* "MS"
      <<77, 79>>,   \* "MO"
      <<77, 84>>,   \* "MT"
      <<78, 69>>,   \* "NE"
      <<78, 86>>,   \* "NV"
      <<78, 72>>,   \* "NH"
      <<78, 74>>,   \* "NJ"
      <<78, 77>>,   \* "NM"
      <<78, 89>>,   \* "NY"
      <<78, 67>>,   \* "NC"
      <<78, 68>>,   \* "ND"
      <<79, 72>>,   \* "OH"
      <<79, 75>>,   \* "OK"
      <<79, 82>>,   \* "OR"
      <<80, 65>>,   \* "PA"
      <<82, 73>>,   \* "RI"
      <<83, 67>>,   \* "SC"
      <<83, 68>>,   \* "SD"
      <<84, 78>>,   \* "TN"
      <<84, 88>>,   \* "TX"
      <<85, 84>>,   \* "UT"
      <<86, 84>>,   \* "VT"
      <<86, 65>>,   \* "VA"
      <<87, 65>>,   \* "WA"
      <<87, 86>>,   \* "WV"
      <<87, 73>>,   \* "WI"
      <<87, 89>>,   \* "WY"
      <<68, 67>> }   \* "DC"

US_STATE_NAMES ==
    { <<97, 108, 97, 98, 97, 109, 97>>,   \* "alabama"
      <<97, 108, 97, 115, 107, 97>>,   \* "alaska"
      <<97, 114, 105, 122, 111, 110, 97>>,   \* "arizona"
      <<97, 114, 107, 97, 110, 115, 97, 115>>,   \* "arkansas"
      <<99, 97, 108, 105, 102, 111, 114, 110, 105, 97>>,   \* "california"
      <<99, 111, 108, 111, 114, 97, 100, 111>>,   \* "colorado"
      <<99, 111, 110, 110, 101, 99, 116, 105, 99, 117, 116>>,   \* "connecticut"
      <<100, 101, 108, 97, 119, 97, 114, 101>>,   \* "delaware"
      <<102, 108, 111, 114, 105, 100, 97>>,   \* "florida"
      <<103, 101, 111, 114, 103, 105, 97>>,   \* "georgia"
      <<104, 97, 119, 97, 105, 105>>,   \* "hawaii"
      <<105, 100, 97, 104, 111>>,   \* "idaho"
      <<105, 108, 108, 105, 110, 111, 105, 115>>,   \* "illinois"
      <<105, 110, 100, 105, 97, 110, 97>>,   \* "indiana"
      <<105, 111, 119, 97>>,   \* "iowa"
      <<107, 97, 110, 115, 97, 115>>,   \* "kansas"
      <<107, 101, 110, 116, 117, 99, 107, 121>>,   \* "kentucky"
      <<108, 111, 117, 105, 115, 105, 97, 110, 97>>,   \* "louisiana"
      <<109, 97, 105, 110, 101>>,   \* "maine"
      <<109, 97, 114, 121, 108, 97, 110, 100>>,   \* "maryland"
      <<109, 97, 115, 115, 97, 99, 104, 117, 115, 101, 116, 116, 115>>,   \* "massachusetts"
      <<109, 105, 99, 104, 105, 103, 97, 110>>,   \* "michigan"
      <<109, 105, 110, 110, 101, 115, 111, 116, 97>>,   \* "minnesota"
      <<109, 105, 115, 115, 105, 115, 115, 105, 112, 112, 105>>,   \* "mississippi"
      <<109, 105, 115, 115, 111, 117, 114, 105>>,   \* "missouri"
      <<109, 111, 110, 116, 97, 110, 97>>,   \* "montana"
      <<110, 101, 98, 114, 97, 115, 107, 97>>,   \* "nebraska"
      <<110, 101, 118, 97, 100, 97>>,   \* "nevada"
      <<110, 101, 119, 32, 104, 97, 109, 112, 115, 104, 105, 114, 101>>,   \* "new hampshire"
      <<110, 101, 119, 32, 106, 101, 114, 115, 101, 121>>,   \* "new jersey"
      <<110, 101, 119, 32, 109, 101, 120, 105, 99, 111>>,   \* "new mexico"
      <<110, 101, 119, 32, 121, 111, 114, 107>>,   \* "new york"
      <<110, 111, 114, 116, 104, 32, 99, 97, 114, 111, 108, 105, 110, 97>>,   \* "north carolina"
      <<110, 111, 114, 116, 104, 32, 100, 97, 107, 111, 116, 97>>,   \* "north dakota"
      <<111, 104, 105, 111>>,   \* "ohio"
      <<111, 107, 108, 97, 104, 111, 109, 97>>,   \* "oklahoma"
      <<111, 114, 101, 103, 111, 110>>,   \* "oregon"
      <<112, 101, 110, 110, 115, 121, 108, 118, 97, 110, 105, 97>>,   \* "pennsylvania"
      <<114, 104, 111, 100, 101, 32, 105, 115, 108, 97, 110, 100>>,   \* "rhode island"
      <<115, 111, 117, 116, 104, 32, 99, 97, 114, 111, 108, 105, 110, 97>>,   \* "south carolina"
      <<115, 111, 117, 116, 104, 32, 100, 97, 107, 111, 116, 97>>,   \* "south dakota"
      <<116, 101, 110, 110, 101, 115, 115, 101, 101>>,   \* "tennessee"
      <<116, 101, 120, 97, 115>>,   \* "texas"
      <<117, 116, 97, 104>>,   \* "utah"
      <<118, 101, 114, 109, 111, 110, 116>>,   \* "vermont"
      <<118, 105, 114, 103, 105, 110, 105, 97>>,   \* "virginia"
      <<119, 97, 115, 104, 105, 110, 103, 116, 111, 110>>,   \* "washington"
      <<119, 101, 115, 116, 32, 118, 105, 114, 103, 105, 110, 105, 97>>,   \* "west virginia"
      <<119, 105, 115, 99, 111, 110, 115, 105, 110>>,   \* "wisconsin"
      <<119, 121, 111, 109, 105, 110, 103>>,   \* "wyoming"
      <<100, 105, 115, 116, 114, 105, 99, 116, 32, 111, 102, 32, 99, 111, 108, 117, 109, 98, 105, 97>> }   \* "district of columbia"

\* "united states", "usa", "US", " "
UNITED_STATES == <<117, 110, 105, 116, 101, 100, 32, 115, 116, 97, 116, 101, 115>>
USA == <<117, 115, 97>>
US == <<85, 83>>
\* combined = " ".join([normalize_text(display)] + ([" ".join(area)] if area else [])).lower()
Combined(display, area) ==
    Lower(Join(<<32>>, <<normalize_text(display)>>
                      \o (IF area # <<>> THEN <<Join(<<32>>, area)>> ELSE <<>>)))

is_us_location(display, area) ==
    LET combined == Combined(display, area)
    IN  \/ Contains(UNITED_STATES, combined)
        \/ Contains(USA, combined)
        \/ SearchWord(US, combined)
        \/ \E state \in US_STATE_NAMES : Contains(state, combined)
        \/ \E abbr \in US_STATE_ABBR : SearchWord(abbr, combined)

(***************************************************************************)
(* Title classifier.  TITLE_REGEX is \b( alt | alt | ... )\b under (?ix):  *)
(* each alternative is written out as the phrases it accepts, a phrase     *)
(* being its words in order; consecutive words are separated by \s+.       *)
(***************************************************************************)

TITLE_REGEX ==
      \* (controls?|automation)\s+engineer
    { <<<<97, 117, 116, 111, 109, 97, 116, 105, 111, 110>>, <<101, 110, 103, 105, 110, 101, 101, 114>>>>,   \* "automation engineer"
      <<<<99, 111, 110, 116, 114, 111, 108>>, <<101, 110, 103, 105, 110, 101, 101, 114>>>>,   \* "control engineer"
      <<<<99, 111, 110, 116, 114, 111, 108, 115>>, <<101, 110, 103, 105, 110, 101, 101, 114>>>>,   \* "controls engineer"
      \* process\s+engineer
      <<<<112, 114, 111, 99, 101, 115, 115>>, <<101, 110, 103, 105, 110, 101, 101, 114>>>>,   \* "process engineer"
      \* maintenance\s+engineer
      <<<<109, 97, 105, 110, 116, 101, 110, 97, 110, 99, 101>>, <<101, 110, 103, 105, 110, 101, 101, 114>>>>,   \* "maintenance engineer"
      \* industrial\s+engineer
      <<<<105, 110, 100, 117, 115, 116, 114, 105, 97, 108>>, <<101, 110, 103, 105, 110, 101, 101, 114>>>>,   \* "industrial engineer"
      \* mechanical\s+engineer
      <<<<109, 101, 99, 104, 97, 110, 105, 99, 97, 108>>, <<101, 110, 103, 105, 110, 101, 101, 114>>>>,   \* "mechanical engineer"
      \* manufacturing\s+engineer
      <<<<109, 97, 110, 117, 102, 97, 99, 116, 117, 114, 105, 110, 103>>, <<101, 110, 103, 105, 110, 101, 101, 114>>>>,   \* "manufacturing engineer"
      \* plant\s+engineer
      <<<<112, 108, 97, 110, 116>>, <<101, 110, 103, 105, 110, 101, 101, 114>>>>,   \* "plant engineer"
      \* reliability\s+engineer
      <<<<114, 101, 108, 105, 97, 98, 105, 108, 105, 116, 121>>, <<101, 110, 103, 105, 110, 101, 101, 114>>>>,   \* "reliability engineer"
      \* continuous\s+improvement\s+engineer
      <<<<99, 111, 110, 116, 105, 110, 117, 111, 117, 115>>, <<105, 109, 112, 114, 111, 118, 101, 109, 101, 110, 116>>, <<101, 110, 103, 105, 110, 101, 101, 114>>>>,   \* "continuous improvement engineer"
      \* quality\s+engineer
      <<<<113, 117, 97, 108, 105, 116, 121>>, <<101, 110, 103, 105, 110, 101, 101, 114>>>>,   \* "quality engineer"
      \* production(\s+process)?\s+engineer
      <<<<112, 114, 111, 100, 117, 99, 116, 105, 111, 110>>, <<101, 110, 103, 105, 110, 101, 101, 114>>>>,   \* "production engineer"
      <<<<112, 114, 111, 100, 117, 99, 116, 105, 111, 110>>, <<112, 114, 111, 99, 101, 115, 115>>, <<101, 110, 103, 105, 110, 101, 101, 114>>>>,   \* "production process engineer"
      \* manufacturing\s+process\s+engineer
      <<<<109, 97, 110, 117, 102, 97, 99, 116, 117, 114, 105, 110, 103>>, <<112, 114, 111, 99, 101, 115, 115>>, <<101, 110, 103, 105, 110, 101, 101, 114>>>>,   \* "manufacturing process engineer"
      \* process\s+development\s+engineer
      <<<<112, 114, 111, 99, 101, 115, 115>>, <<100, 101, 118, 101, 108, 111, 112, 109, 101, 110, 116>>, <<101, 110, 103, 105, 110, 101, 101, 114>>>>,   \* "process development engineer"
      \* manufacturing\s+systems?\s+engineer
      <<<<109, 97, 110, 117, 102, 97, 99, 116, 117, 114, 105, 110, 103>>, <<115, 121, 115, 116, 101, 109>>, <<101, 110, 103, 105, 110, 101, 101, 114>>>>,   \* "manufacturing system engineer"
      <<<<109, 97, 110, 117, 102, 97, 99, 116, 117, 114, 105, 110, 103>>, <<115, 121, 115, 116, 101, 109, 115>>, <<101, 110, 103, 105, 110, 101, 101, 114>>>>,   \* "manufacturing systems engineer"
      \* industrialization\s+engineer
      <<<<105, 110, 100, 117, 115, 116, 114, 105, 97, 108, 105, 122, 97, 116, 105, 111, 110>>, <<101, 110, 103, 105, 110, 101, 101, 114>>>>,   \* "industrialization engineer"
      \* (new\s+product\s+introduction|npi)\s+engineer
      <<<<110, 101, 119>>, <<112, 114, 111, 100, 117, 99, 116>>, <<105, 110, 116, 114, 111, 100, 117, 99, 116, 105, 111, 110>>, <<101, 110, 103, 105, 110, 101, 101, 114>>>>,   \* "new product introduction engineer"
      <<<<110, 112, 105>>, <<101, 110, 103, 105, 110, 101, 101, 114>>>>,   \* "npi engineer"
      \* tooling\s+engineer
      <<<<116, 111, 111, 108, 105, 110, 103>>, <<101, 110, 103, 105, 110, 101, 101, 114>>>>,   \* "tooling engineer"
      \* (mold|mould|die)\s+engineer
      <<<<100, 105, 101>>, <<101, 110, 103, 105, 110, 101, 101, 114>>>>,   \* "die engineer"
      <<<<109, 111, 108, 100>>, <<101, 110, 103, 105, 110, 101, 101, 114>>>>,   \* "mold engineer"
      <<<<109, 111, 117, 108, 100>>, <<101, 110, 103, 105, 110, 101, 101, 114>>>>,   \* "mould engineer"
      \* weld(ing)?\s+engineer
      <<<<119, 101, 108, 100>>, <<101, 110, 103, 105, 110, 101, 101, 114>>>>,   \* "weld engineer"
      <<<<119, 101, 108, 100, 105, 110, 103>>, <<101, 110, 103, 105, 110, 101, 101, 114>>>>,   \* "welding engineer"
      \* equipment\s+engineer
      <<<<101, 113, 117, 105, 112, 109, 101, 110, 116>>, <<101, 110, 103, 105, 110, 101, 101, 114>>>>,   \* "equipment engineer"
      \* facilities?\s+engineer
      <<<<102, 97, 99, 105, 108, 105, 116, 105, 101>>, <<101, 110, 103, 105, 110, 101, 101, 114>>>>,   \* "facilitie engineer"
      <<<<102, 97, 99, 105, 108, 105, 116, 105, 101, 115>>, <<101, 110, 103, 105, 110, 101, 101, 114>>>>,   \* "facilities engineer"
      \* plastics?\s+engineer
      <<<<112, 108, 97, 115, 116, 105, 99>>, <<101, 110, 103, 105, 110, 101, 101, 114>>>>,   \* "plastic engineer"
      <<<<112, 108, 97, 115, 116, 105, 99, 115>>, <<101, 110, 103, 105, 110, 101, 101, 114>>>>,   \* "plastics engineer"
      \* injection\s+molding\s+engineer
      <<<<105, 110, 106, 101, 99, 116, 105, 111, 110>>, <<109, 111, 108, 100, 105, 110, 103>>, <<101, 110, 103, 105, 110, 101, 101, 114>>>>,   \* "injection molding engineer"
      \* packaging\s+engineer
      <<<<112, 97, 99, 107, 97, 103, 105, 110, 103>>, <<101, 110, 103, 105, 110, 101, 101, 114>>>>,   \* "packaging engineer"
      \* test\s+engineer
      <<<<116, 101, 115, 116>>, <<101, 110, 103, 105, 110, 101, 101, 114>>>>,   \* "test engineer"
      \* manufacturing\s+test\s+engineer
      <<<<109, 97, 110, 117, 102, 97, 99, 116, 117, 114, 105, 110, 103>>, <<116, 101, 115, 116>>, <<101, 110, 103, 105, 110, 101, 101, 114>>>>,   \* "manufacturing test engineer"
      \* mechatronics?\s+engineer
      <<<<109, 101, 99, 104, 97, 116, 114, 111, 110, 105, 99>>, <<101, 110, 103, 105, 110, 101, 101, 114>>>>,   \* "mechatronic engineer"
      <<<<109, 101, 99, 104, 97, 116, 114, 111, 110, 105, 99, 115>>, <<101, 110, 103, 105, 110, 101, 101, 114>>>>,   \* "mechatronics engineer"
      \* methods?\s+engineer
      <<<<109, 101, 116, 104, 111, 100>>, <<101, 110, 103, 105, 110, 101, 101, 114>>>>,   \* "method engineer"
      <<<<109, 101, 116, 104, 111, 100, 115>>, <<101, 110, 103, 105, 110, 101, 101, 114>>>>,   \* "methods engineer"
      \* lean\s+manufacturing\s+engineer
      <<<<108, 101, 97, 110>>, <<109, 97, 110, 117, 102, 97, 99, 116, 117, 114, 105, 110, 103>>, <<101, 110, 103, 105, 110, 101, 101, 114>>>>,   \* "lean manufacturing engineer"
      \* sustaining\s+engineer
      <<<<115, 117, 115, 116, 97, 105, 110, 105, 110, 103>>, <<101, 110, 103, 105, 110, 101, 101, 114>>>>,   \* "sustaining engineer"
      \* (controls?|automation)\s+(engineering\s+)?manager
      <<<<97, 117, 116, 111, 109, 97, 116, 105, 111, 110>>, <<101, 110, 103, 105, 110, 101, 101, 114, 105, 110, 103>>, <<109, 97, 110, 97, 103, 101, 114>>>>,   \* "automation engineering manager"
      <<<<97, 117, 116, 111, 109, 97, 116, 105, 111, 110>>, <<109, 97, 110, 97, 103, 101, 114>>>>,   \* "automation manager"
      <<<<99, 111, 110, 116, 114, 111, 108>>, <<101, 110, 103, 105, 110, 101, 101, 114, 105, 110, 103>>, <<109, 97, 110, 97, 103, 101, 114>>>>,   \* "control engineering manager"
      <<<<99, 111, 110, 116, 114, 111, 108>>, <<109, 97, 110, 97, 103, 101, 114>>>>,   \* "control manager"
      <<<<99, 111, 110, 116, 114, 111, 108, 115>>, <<101, 110, 103, 105, 110, 101, 101, 114, 105, 110, 103>>, <<109, 97, 110, 97, 103, 101, 114>>>>,   \* "controls engineering manager"
      <<<<99, 111, 110, 116, 114, 111, 108, 115>>, <<109, 97, 110, 97, 103, 101, 114>>>>,   \* "controls manager"
      \* process\s+(engineering\s+)?manager
      <<<<112, 114, 111, 99, 101, 115, 115>>, <<101, 110, 103, 105, 110, 101, 101, 114, 105, 110, 103>>, <<109, 97, 110, 97, 103, 101, 114>>>>,   \* "process engineering manager"
      <<<<112, 114, 111, 99, 101, 115, 115>>, <<109, 97, 110, 97, 103, 101, 114>>>>,   \* "process manager"
      \* maintenance(\s+engineering)?\s+manager
      <<<<109, 97, 105, 110, 116, 101, 110, 97, 110, 99, 101>>, <<101, 110, 103, 105, 110, 101, 101, 114, 105, 110, 103>>, <<109, 97, 110, 97, 103, 101, 114>>>>,   \* "maintenance engineering manager"
      <<<<109, 97, 105, 110, 116, 101, 110, 97, 110, 99, 101>>, <<109, 97, 110, 97, 103, 101, 114>>>>,   \* "maintenance manager"
      \* industrial\s+(engineering\s+)?manager
      <<<<105, 110, 100, 117, 115, 116, 114, 105, 97, 108>>, <<101, 110, 103, 105, 110, 101, 101, 114, 105, 110, 103>>, <<109, 97, 110, 97, 103, 101, 114>>>>,   \* "industrial engineering manager"
      <<<<105, 110, 100, 117, 115, 116, 114, 105, 97, 108>>, <<109, 97, 110, 97, 103, 101, 114>>>>,   \* "industrial manager"
      \* mechanical\s+(engineering\s+)?manager
      <<<<109, 101, 99, 104, 97, 110, 105, 99, 97, 108>>, <<101, 110, 103, 105, 110, 101, 101, 114, 105, 110, 103>>, <<109, 97, 110, 97, 103, 101, 114>>>>,   \* "mechanical engineering manager"
      <<<<109, 101, 99, 104, 97, 110, 105, 99, 97, 108>>, <<109, 97, 110, 97, 103, 101, 114>>>>,   \* "mechanical manager"
      \* manufacturing(\s+engineering)?\s+manager
      <<<<109, 97, 110, 117, 102, 97, 99, 116, 117, 114, 105, 110, 103>>, <<101, 110, 103, 105, 110, 101, 101, 114, 105, 110, 103>>, <<109, 97, 110, 97, 103, 101, 114>>>>,   \* "manufacturing engineering manager"
      <<<<109, 97, 110, 117, 102, 97, 99, 116, 117, 114, 105, 110, 103>>, <<109, 97, 110, 97, 103, 101, 114>>>>,   \* "manufacturing manager"
      \* plant(\s+engineering)?\s+manager
      <<<<112, 108, 97, 110, 116>>, <<101, 110, 103, 105, 110, 101, 101, 114, 105, 110, 103>>, <<109, 97, 110, 97, 103, 101, 114>>>>,   \* "plant engineering manager"
      <<<<112, 108, 97, 110, 116>>, <<109, 97, 110, 97, 103, 101, 114>>>>,   \* "plant manager"
      \* reliability(\s+engineering)?\s+manager
      <<<<114, 101, 108, 105, 97, 98, 105, 108, 105, 116, 121>>, <<101, 110, 103, 105, 110, 101, 101, 114, 105, 110, 103>>, <<109, 97, 110, 97, 103, 101, 114>>>>,   \* "reliability engineering manager"
      <<<<114, 101, 108, 105, 97, 98, 105, 108, 105, 116, 121>>, <<109, 97, 110, 97, 103, 101, 114>>>>,   \* "reliability manager"
      \* continuous\s+improvement\s+manager
      <<<<99, 111, 110, 116, 105, 110, 117, 111, 117, 115>>, <<105, 109, 112, 114, 111, 118, 101, 109, 101, 110, 116>>, <<109, 97, 110, 97, 103, 101, 114>>>>,   \* "continuous improvement manager"
      \* quality(\s+engineering)?\s+manager
      <<<<113, 117, 97, 108, 105, 116, 121>>, <<101, 110, 103, 105, 110, 101, 101, 114, 105, 110, 103>>, <<109, 97, 110, 97, 103, 101, 114>>>>,   \* "quality engineering manager"
      <<<<113, 117, 97, 108, 105, 116, 121>>, <<109, 97, 110, 97, 103, 101, 114>>>>,   \* "quality manager"
      \* production(\s+process)?\s+(engineering\s+)?manager
      <<<<112, 114, 111, 100, 117, 99, 116, 105, 111, 110>>, <<101, 110, 103, 105, 110, 101, 101, 114, 105, 110, 103>>, <<109, 97, 110, 97, 103, 101, 114>>>>,   \* "production engineering manager"
      <<<<112, 114, 111, 100, 117, 99, 116, 105, 111, 110>>, <<109, 97, 110, 97, 103, 101, 114>>>>,   \* "production manager"
      <<<<112, 114, 111, 100, 117, 99, 116, 105, 111, 110>>, <<112, 114, 111, 99, 101, 115, 115>>, <<101, 110, 103, 105, 110, 101, 101, 114, 105, 110, 103>>, <<109, 97, 110, 97, 103, 101, 114>>>>,   \* "production process engineering manager"
      <<<<112, 114, 111, 100, 117, 99, 116, 105, 111, 110>>, <<112, 114, 111, 99, 101, 115, 115>>, <<109, 97, 110, 97, 103, 101, 114>>>>,   \* "production process manager"
      \* process\s+development\s+(engineering\s+)?manager
      <<<<112, 114, 111, 99, 101, 115, 115>>, <<100, 101, 118, 101, 108, 111, 112, 109, 101, 110, 116>>, <<101, 110, 103, 105, 110, 101, 101, 114, 105, 110, 103>>, <<109, 97, 110, 97, 103, 101, 114>>>>,   \* "process development engineering manager"
      <<<<112, 114, 111, 99, 101, 115, 115>>, <<100, 101, 118, 101, 108, 111, 112, 109, 101, 110, 116>>, <<109, 97, 110, 97, 103, 101, 114>>>>,   \* "process development manager"
      \* manufacturing\s+systems?\s+(engineering\s+)?manager
      <<<<109, 97, 110, 117, 102, 97, 99, 116, 117, 114, 105, 110, 103>>, <<115, 121, 115, 116, 101, 109>>, <<101, 110, 103, 105, 110, 101, 101, 114, 105, 110, 103>>, <<109, 97, 110, 97, 103, 101, 114>>>>,   \* "manufacturing system engineering manager"
      <<<<109, 97, 110, 117, 102, 97, 99, 116, 117, 114, 105, 110, 103>>, <<115, 121, 115, 116, 101, 109>>, <<109, 97, 110, 97, 103, 101, 114>>>>,   \* "manufacturing system manager"
      <<<<109, 97, 110, 117, 102, 97, 99, 116, 117, 114, 105, 110, 103>>, <<115, 121, 115, 116, 101, 109, 115>>, <<101, 110, 103, 105, 110, 101, 101, 114, 105, 110, 103>>, <<109, 97, 110, 97, 103, 101, 114>>>>,   \* "manufacturing systems engineering manager"
      <<<<109, 97, 110, 117, 102, 97, 99, 116, 117, 114, 105, 110, 103>>, <<115, 121, 115, 116, 101, 109, 115>>, <<109, 97, 110, 97, 103, 101, 114>>>>,   \* "manufacturing systems manager"
      \* industrialization\s+(engineering\s+)?manager
      <<<<105, 110, 100, 117, 115, 116, 114, 105, 97, 108, 105, 122, 97, 116, 105, 111, 110>>, <<101, 110, 103, 105, 110, 101, 101, 114, 105, 110, 103>>, <<109, 97, 110, 97, 103, 101, 114>>>>,   \* "industrialization engineering manager"
      <<<<105, 110, 100, 117, 115, 116, 114, 105, 97, 108, 105, 122, 97, 116, 105, 111, 110>>, <<109, 97, 110, 97, 103, 101, 114>>>>,   \* "industrialization manager"
      \* (new\s+product\s+introduction|npi)\s+(engineering\s+)?manager
      <<<<110, 101, 119>>, <<112, 114, 111, 100, 117, 99, 116>>, <<105, 110, 116, 114, 111, 100, 117, 99, 116, 105, 111, 110>>, <<101, 110, 103, 105, 110, 101, 101, 114, 105, 110, 103>>, <<109, 97, 110, 97, 103, 101, 114>>>>,   \* "new product introduction engineering manager"
      <<<<110, 101, 119>>, <<112, 114, 111, 100, 117, 99, 116>>, <<105, 110, 116, 114, 111, 100, 117, 99, 116, 105, 111, 110>>, <<109, 97, 110, 97, 103, 101, 114>>>>,   \* "new product introduction manager"
      <<<<110, 112, 105>>, <<101, 110, 103, 105, 110, 101, 101, 114, 105, 110, 103>>, <<109, 97, 110, 97, 103, 101, 114>>>>,   \* "npi engineering manager"
      <<<<110, 112, 105>>, <<109, 97, 110, 97, 103, 101, 114>>>>,   \* "npi manager"
      \* tooling\s+(engineering\s+)?manager
      <<<<116, 111, 111, 108, 105, 110, 103>>, <<101, 110, 103, 105, 110, 101, 101, 114, 105, 110, 103>>, <<109, 97, 110, 97, 103, 101, 114>>>>,   \* "tooling engineering manager"
      <<<<116, 111, 111, 108, 105, 110, 103>>, <<109, 97, 110, 97, 103, 101, 114>>>>,   \* "tooling manager"
      \* (mold|mould|die)\s+(engineering\s+)?manager
      <<<<100, 105, 101>>, <<101, 110, 103, 105, 110, 101, 101, 114, 105, 110, 103>>, <<109, 97, 110, 97, 103, 101, 114>>>>,   \* "die engineering manager"
      <<<<100, 105, 101>>, <<109, 97, 110, 97, 103, 101, 114>>>>,   \* "die manager"
      <<<<109, 111, 108, 100>>, <<101, 110, 103, 105, 110, 101, 101, 114, 105, 110, 103>>, <<109, 97, 110, 97, 103, 101, 114>>>>,   \* "mold engineering manager"
      <<<<109, 111, 108, 100>>, <<109, 97, 110, 97, 103, 101, 114>>>>,   \* "mold manager"
      <<<<109, 111, 117, 108, 100>>, <<101, 110, 103, 105, 110, 101, 101, 114, 105, 110, 103>>, <<109, 97, 110, 97, 103, 101, 114>>>>,   \* "mould engineering manager"
      <<<<109, 111, 117, 108, 100>>, <<109, 97, 110, 97, 103, 101, 114>>>>,   \* "mould manager"
      \* weld(ing)?\s+(engineering\s+)?manager
      <<<<119, 101, 108, 100>>, <<101, 110, 103, 105, 110, 101, 101, 114, 105, 110, 103>>, <<109, 97, 110, 97, 103, 101, 114>>>>,   \* "weld engineering manager"
      <<<<119, 101, 108, 100>>, <<109, 97, 110, 97, 103, 101, 114>>>>,   \* "weld manager"
      <<<<119, 101, 108, 100, 105, 110, 103>>, <<101, 110, 103, 105, 110, 101, 101, 114, 105, 110, 103>>, <<109, 97, 110, 97, 103, 101, 114>>>>,   \* "welding engineering manager"
      <<<<119, 101, 108, 100, 105, 110, 103>>, <<109, 97, 110, 97, 103, 101, 114>>>>,   \* "welding manager"
      \* equipment\s+(engineering\s+)?manager
      <<<<101, 113, 117, 105, 112, 109, 101, 110, 116>>, <<101, 110, 103, 105, 110, 101, 101, 114, 105, 110, 103>>, <<109, 97, 110, 97, 103, 101, 114>>>>,   \* "equipment engineering manager"
      <<<<101, 113, 117, 105, 112, 109, 101, 110, 116>>, <<109, 97, 110, 97, 103, 101, 114>>>>,   \* "equipment manager"
      \* facilities?\s+(engineering\s+)?manager
      <<<<102, 97, 99, 105, 108, 105, 116, 105, 101>>, <<101, 110, 103, 105, 110, 101, 101, 114, 105, 110, 103>>, <<109, 97, 110, 97, 103, 101, 114>>>>,   \* "facilitie engineering manager"
      <<<<102, 97, 99, 105, 108, 105, 116, 105, 101>>, <<109, 97, 110, 97, 103, 101, 114>>>>,   \* "facilitie manager"
      <<<<102, 97, 99, 105, 108, 105, 116, 105, 101, 115>>, <<101, 110, 103, 105, 110, 101, 101, 114, 105, 110, 103>>, <<109, 97, 110, 97, 103, 101, 114>>>>,   \* "facilities engineering manager"
      <<<<102, 97, 99, 105, 108, 105, 116, 105, 101, 115>>, <<109, 97, 110, 97, 103, 101, 114>>>>,   \* "facilities manager"
      \* packaging\s+(engineering\s+)?manager
      <<<<112, 97, 99, 107, 97, 103, 105, 110, 103>>, <<101, 110, 103, 105, 110, 101, 101, 114, 105, 110, 103>>, <<109, 97, 110, 97, 103, 101, 114>>>>,   \* "packaging engineering manager"
      <<<<112, 97, 99, 107, 97, 103, 105, 110, 103>>, <<109, 97, 110, 97, 103, 101, 114>>>>,   \* "packaging manager"
      \* test\s+(engineering\s+)?manager
      <<<<116, 101, 115, 116>>, <<101, 110, 103, 105, 110, 101, 101, 114, 105, 110, 103>>, <<109, 97, 110, 97, 103, 101, 114>>>>,   \* "test engineering manager"
      <<<<116, 101, 115, 116>>, <<109, 97, 110, 97, 103, 101, 114>>>>,   \* "test manager"
      \* mechatronics?\s+(engineering\s+)?manager
      <<<<109, 101, 99, 104, 97, 116, 114, 111, 110, 105, 99>>, <<101, 110, 103, 105, 110, 101, 101, 114, 105, 110, 103>>, <<109, 97, 110, 97, 103, 101, 114>>>>,   \* "mechatronic engineering manager"
      <<<<109, 101, 99, 104, 97, 116, 114, 111, 110, 105, 99>>, <<109, 97, 110, 97, 103, 101, 114>>>>,   \* "mechatronic manager"
      <<<<109, 101, 99, 104, 97, 116, 114, 111, 110, 105, 99, 115>>, <<101, 110, 103, 105, 110, 101, 101, 114, 105, 110, 103>>, <<109, 97, 110, 97, 103, 101, 114>>>>,   \* "mechatronics engineering manager"
      <<<<109, 101, 99, 104, 97, 116, 114, 111, 110, 105, 99, 115>>, <<109, 97, 110, 97, 103, 101, 114>>>>,   \* "mechatronics manager"
      \* methods?\s+(engineering\s+)?manager
      <<<<109, 101, 116, 104, 111, 100>>, <<101, 110, 103, 105, 110, 101, 101, 114, 105, 110, 103>>, <<109, 97, 110, 97, 103, 101, 114>>>>,   \* "method engineering manager"
      <<<<109, 101, 116, 104, 111, 100>>, <<109, 97, 110, 97, 103, 101, 114>>>>,   \* "method manager"
      <<<<109, 101, 116, 104, 111, 100, 115>>, <<101, 110, 103, 105, 110, 101, 101, 114, 105, 110, 103>>, <<109, 97, 110, 97, 103, 101, 114>>>>,   \* "methods engineering manager"
      <<<<109, 101, 116, 104, 111, 100, 115>>, <<109, 97, 110, 97, 103, 101, 114>>>>,   \* "methods manager"
      \* lean\s+manufacturing\s+(engineering\s+)?manager
      <<<<108, 101, 97, 110>>, <<109, 97, 110, 117, 102, 97, 99, 116, 117, 114, 105, 110, 103>>, <<101, 110, 103, 105, 110, 101, 101, 114, 105, 110, 103>>, <<109, 97, 110, 97, 103, 101, 114>>>>,   \* "lean manufacturing engineering manager"
      <<<<108, 101, 97, 110>>, <<109, 97, 110, 117, 102, 97, 99, 116, 117, 114, 105, 110, 103>>, <<109, 97, 110, 97, 103, 101, 114>>>>,   \* "lean manufacturing manager"
      \* sustaining\s+(engineering\s+)?manager
      <<<<115, 117, 115, 116, 97, 105, 110, 105, 110, 103>>, <<101, 110, 103, 105, 110, 101, 101, 114, 105, 110, 103>>, <<109, 97, 110, 97, 103, 101, 114>>>>,   \* "sustaining engineering manager"
      <<<<115, 117, 115, 116, 97, 105, 110, 105, 110, 103>>, <<109, 97, 110, 97, 103, 101, 114>>>> }   \* "sustaining manager"

\* The words of a phrase matched from gap p of s, \s+ between consecutive
\* words: the gap where the match ends, or -1 when there is none.
RECURSIVE MatchWords(_, _, _)
MatchWords(s, p, words) ==
    LET w == Head(words)
        e == p + Len(w)
    IN  IF e > Len(s) \/ s[p + 1] # w[1] \/ SubSeq(s, p + 1, e) # w THEN -1
        ELSE IF Len(words) = 1 THEN e
        ELSE LET q == CHOOSE k \in e..Len(s) :
                          /\ \A i \in (e + 1)..k : IsSpace(s[i])
                          /\ (k = Len(s) \/ ~IsSpace(s[k + 1]))
             IN  IF q = e THEN -1 ELSE MatchWords(s, q, Tail(words))

\* pattern.search(s) for a pattern \b(phrase|...)\b with re.IGNORECASE.
SearchPhrases(phrases, s) ==
    LET t == Lower(s)
    IN  \E p \in 0..Len(t) :
            /\ Boundary(t, p)
            /\ \E phrase \in phrases :
                   LET e == MatchWords(t, p, phrase)
                   IN  e >= 0 /\ Boundary(t, e)

\* bool(TITLE_REGEX.search(title or ""))
title_is_target(title) ==
    SearchPhrases(TITLE_REGEX, IF title = None THEN EMPTY ELSE title)

(***************************************************************************)
(* Staffing-agency classifier.                                             *)
(***************************************************************************)

DEFAULT_AGENCY_BLOCKLIST ==
    { <<97, 100, 101, 99, 99, 111>>,   \* "adecco"
      <<114, 97, 110, 100, 115, 116, 97, 100>>,   \* "randstad"
      <<109, 97, 110, 112, 111, 119, 101, 114>>,   \* "manpower"
      <<109, 97, 110, 112, 111, 119, 101, 114, 103, 114, 111, 117, 112>>,   \* "manpowergroup"
      <<101, 120, 112, 101, 114, 105, 115>>,   \* "experis"
      <<104, 97, 121, 115>>,   \* "hays"
      <<114, 111, 98, 101, 114, 116, 32, 104, 97, 108, 102>>,   \* "robert half"
      <<107, 101, 108, 108, 121>>,   \* "kelly"
      <<107, 101, 108, 108, 121, 32, 115, 101, 114, 118, 105, 99, 101, 115>>,   \* "kelly services"
      <<107, 101, 108, 108, 121, 111, 99, 103>>,   \* "kellyocg"
      <<97, 101, 114, 111, 116, 101, 107>>,   \* "aerotek"
      <<97, 99, 116, 97, 108, 101, 110, 116>>,   \* "actalent"
      <<107, 102, 111, 114, 99, 101>>,   \* "kforce"
      <<105, 110, 115, 105, 103, 104, 116, 32, 103, 108, 111, 98, 97, 108>>,   \* "insight global"
      <<98, 101, 97, 99, 111, 110, 32, 104, 105, 108, 108>>,   \* "beacon hill"
      <<111, 110, 32, 97, 115, 115, 105, 103, 110, 109, 101, 110, 116>>,   \* "on assignment"
      <<97, 115, 103, 110>>,   \* "asgn"
      <<118, 111, 108, 116>>,   \* "volt"
      <<115, 121, 115, 116, 101, 109, 32, 111, 110, 101>>,   \* "system one"
      <<112, 101, 111, 112, 108, 101, 32, 114, 101, 97, 100, 121>>,   \* "people ready"
      <<97, 112, 112, 108, 101, 111, 110, 101>>,   \* "appleone"
      <<109, 111, 116, 105, 111, 110, 32, 114, 101, 99, 114, 117, 105, 116, 109, 101, 110, 116>>,   \* "motion recruitment"
      <<110, 101, 108, 115, 111, 110>>,   \* "nelson"
      <<99, 111, 108, 108, 97, 98, 101, 114, 97>>,   \* "collabera"
      <<121, 111, 104>>,   \* "yoh"
      <<112, 114, 111, 108, 105, 110, 107>>,   \* "prolink"
      <<109, 101, 100, 105, 120>>,   \* "medix"
      <<112, 100, 115, 32, 116, 101, 99, 104>>,   \* "pds tech"
      <<116, 101, 107, 115, 121, 115, 116, 101, 109, 115>>,   \* "teksystems"
      <<116, 101, 107, 32, 115, 121, 115, 116, 101, 109, 115>>,   \* "tek systems"
      <<99, 121, 98, 101, 114, 99, 111, 100, 101, 114, 115>>,   \* "cybercoders"
      <<99, 121, 98, 101, 114, 32, 99, 111, 100, 101, 114, 115>>,   \* "cyber coders"
      <<106, 111, 98, 111, 116>>,   \* "jobot"
      <<103, 112, 97, 99>>,   \* "gpac"
      <<116, 97, 108, 101, 110, 116, 98, 114, 105, 100, 103, 101>>,   \* "talentbridge"
      <<116, 97, 108, 101, 110, 116, 32, 98, 114, 105, 100, 103, 101>>,   \* "talent bridge"
      <<101, 116, 116, 97, 105, 110>>,   \* "ettain"
      <<101, 116, 116, 97, 105, 110, 32, 103, 114, 111, 117, 112>>,   \* "ettain group"
      <<100, 105, 118, 101, 114, 115, 97, 110, 116>>,   \* "diversant"
      <<109, 105, 110, 100, 108, 97, 110, 99, 101>>,   \* "mindlance"
      <<97, 115, 116, 111, 110, 32, 99, 97, 114, 116, 101, 114>>,   \* "aston carter"
      <<97, 108, 108, 101, 103, 105, 115>>,   \* "allegis"
      <<109, 97, 116, 114, 105, 120, 32, 114, 101, 115, 111, 117, 114, 99, 101, 115>>,   \* "matrix resources"
      <<97, 109, 101, 114, 105, 116>>,   \* "amerit"
      <<118, 97, 99, 111>>,   \* "vaco"
      <<99, 121, 98, 101, 114, 116, 104, 105, 110, 107>>,   \* "cyberthink"
      <<109, 105, 110, 100, 115, 101, 101, 107, 101, 114, 115>>,   \* "mindseekers"
      <<99, 111, 108, 108, 97, 98, 101, 114, 97, 32, 100, 105, 103, 105, 116, 97, 108>>,   \* "collabera digital"
      <<99, 111, 114, 110, 101, 114, 115, 116, 111, 110, 101, 32, 115, 116, 97, 102, 102, 105, 110, 103>>,   \* "cornerstone staffing"
      <<114, 111, 98, 101, 114, 116, 104, 97, 108, 102>>,   \* "roberthalf"
      <<97, 112, 112, 108, 101, 32, 111, 110, 101>>,   \* "apple one"
      <<97, 113, 117, 101, 110, 116>>,   \* "aquent"
      <<112, 97, 116, 114, 105, 99, 101, 32, 38, 32, 97, 115, 115, 111, 99, 105, 97, 116, 101, 115>>,   \* "patrice & associates"
      <<112, 97, 116, 114, 105, 99, 101, 32, 97, 110, 100, 32, 97, 115, 115, 111, 99, 105, 97, 116, 101, 115>>,   \* "patrice and associates"
      <<97, 100, 101, 99, 99, 111, 32, 115, 116, 97, 102, 102, 105, 110, 103>>,   \* "adecco staffing"
      <<114, 97, 110, 100, 115, 116, 97, 100, 32, 101, 110, 103, 105, 110, 101, 101, 114, 105, 110, 103>>,   \* "randstad engineering"
      <<109, 105, 99, 104, 97, 101, 108, 32, 112, 97, 103, 101>>,   \* "michael page"
      <<112, 97, 103, 101, 32, 112, 101, 114, 115, 111, 110, 110, 101, 108>>,   \* "page personnel"
      <<112, 97, 103, 101, 103, 114, 111, 117, 112>>,   \* "pagegroup"
      <<116, 97, 99, 116>>,   \* "tact"
      <<116, 114, 105, 108, 108, 105, 117, 109>>,   \* "trillium"
      <<108, 117, 99, 105, 100, 32, 115, 116, 97, 102, 102, 105, 110, 103>>,   \* "lucid staffing"
      <<97, 115, 116, 111, 110, 99, 97, 114, 116, 101, 114>>,   \* "astoncarter"
      <<112, 105, 110, 110, 97, 99, 108, 101, 32, 103, 114, 111, 117, 112>>,   \* "pinnacle group"
      <<104, 97, 114, 118, 101, 121, 32, 110, 97, 115, 104>>,   \* "harvey nash"
      <<114, 104, 116>>,   \* "rht"
      <<116, 114, 99, 32, 115, 116, 97, 102, 102, 105, 110, 103>>,   \* "trc staffing"
      <<115, 105, 103, 110, 97, 116, 117, 114, 101, 32, 99, 111, 110, 115, 117, 108, 116, 97, 110, 116, 115>>,   \* "signature consultants"
      <<115, 105, 103, 110, 97, 116, 117, 114, 101>>,   \* "signature"
      <<97, 116, 114, 105, 117, 109, 32, 115, 116, 97, 102, 102, 105, 110, 103>>,   \* "atrium staffing"
      <<115, 117, 110, 97>>,   \* "suna"
      <<116, 114, 105, 45, 115>>,   \* "tri-s"
      <<116, 114, 105, 32, 115>>,   \* "tri s"
      <<116, 97, 108, 101, 110, 116, 112, 97, 116, 104>>,   \* "talentpath"
      <<116, 97, 108, 101, 110, 116, 98, 117, 114, 115, 116>>,   \* "talentburst"
      <<100, 97, 116, 97, 110, 111, 109, 105, 99, 115>> }   \* "datanomics"

GENERIC_AGENCY_TERMS ==
    { <<115, 116, 97, 102, 102, 105, 110, 103>>,   \* "staffing"
      <<114, 101, 99, 114, 117, 105, 116>>,   \* "recruit"
      <<97, 103, 101, 110, 99, 121>>,   \* "agency"
      <<116, 97, 108, 101, 110, 116>> }   \* "talent"

\* The blocklist with every extra entry added, blank ones too.
AgencyBlocklistWithBlanks(extra) ==
    DEFAULT_AGENCY_BLOCKLIST \cup {Lower(Strip(x)) : x \in extra}

\* bl = set(DEFAULT_AGENCY_BLOCKLIST); bl |= {x.strip().lower() for x in extra if x.strip()}
AgencyBlocklist(extra) ==
    DEFAULT_AGENCY_BLOCKLIST
        \cup {Lower(Strip(x)) : x \in {y \in extra : Strip(y) # EMPTY}}

is_staffing_agency(name, extra) ==
    IF name = None \/ name = EMPTY THEN FALSE
    ELSE LET n == Lower(name)
         IN  \/ \E b \in AgencyBlocklist(extra) : Contains(b, n)
             \/ \E g \in GENERIC_AGENCY_TERMS : Contains(g, n)

(***************************************************************************)
(* Connectors.  A payload item is the JSON object of one posting with the  *)
(* fields the connector reads (None: the field is missing or null).  A     *)
(* response is [kind |-> "ok", ...], [kind |-> "http", code |-> n] for an  *)
(* HTTP error status, or [kind |-> "error"] for a transport failure.       *)
(***************************************************************************)

\* "adzuna", "greenhouse", "lever", "web"
FEED_ADZUNA == <<97, 100, 122, 117, 110, 97>>
FEED_GREENHOUSE == <<103, 114, 101, 101, 110, 104, 111, 117, 115, 101>>
FEED_LEVER == <<108, 101, 118, 101, 114>>
FEED_WEB == <<119, 101, 98>>

\* x or y of Python, for str or None
Or(x, y) == IF x = None \/ x = EMPTY THEN y ELSE x

\* The dict fetch_adzuna_jobs appends for result j.
AdzunaRecord(j) ==
    [feed          |-> FEED_ADZUNA,
     company       |-> normalize_text(j.company),
     title         |-> normalize_text(j.title),
     location      |-> normalize_text(j.location),
     location_area |-> j.area,
     posted_at     |-> normalize_text(j.created),
     url           |-> j.redirect_url,
     description   |-> normalize_text(j.description)]

\* The page loop of fetch_adzuna_jobs from page p on: resp[p] is what
\* _adzuna_page(query, where, max_days_old, p) does.  Any failure ends the
\* loop; HTTP 401, 403 and 429 also set the quota flag.
RECURSIVE AdzunaPages(_, _, _, _)
AdzunaPages(resp, p, pages, acc) ==
    IF p > pages THEN acc
    ELSE LET r == resp[p]
             calls == Append(acc.calls, IF r.kind = "ok" THEN 200
                                         ELSE IF r.kind = "http" THEN r.code ELSE 0)
         IN  IF r.kind = "ok"
             THEN AdzunaPages(resp, p + 1, pages,
                      [jobs  |-> acc.jobs \o [i \in 1..Len(r.results) |->
                                                  AdzunaRecord(r.results[i])],
                       quota |-> acc.quota,
                       calls |-> calls])
             ELSE [jobs  |-> acc.jobs,
                   quota |-> acc.quota \/ (r.kind = "http" /\ r.code \in {401, 403, 429}),
                   calls |-> calls]

fetch_adzuna_jobs(resp, pages) ==
    AdzunaPages(resp, 1, pages, [jobs |-> <<>>, quota |-> FALSE, calls |-> <<>>])

\* all_jobs.extend(...) and the quota flag after one fetch_adzuna_jobs call.
AdzunaMerge(acc, got) ==
    [jobs  |-> acc.jobs \o got.jobs,
     quota |-> got.quota,
     calls |-> acc.calls \o got.calls]

\* The Adzuna loop without the test of the quota flag: every role query is
\* fetched.
RECURSIVE adzuna_loop_without_quota_break(_, _, _, _)
adzuna_loop_without_quota_break(resps, q, pages, acc) ==
    IF q > Len(resps) THEN acc
    ELSE adzuna_loop_without_quota_break(resps, q + 1, pages,
             [jobs  |-> acc.jobs \o fetch_adzuna_jobs(resps[q], pages).jobs,
              quota |-> acc.quota \/ fetch_adzuna_jobs(resps[q], pages).quota,
              calls |-> acc.calls \o fetch_adzuna_jobs(resps[q], pages).calls])

\* The Adzuna loop of the run from role query q on: the quota flag ends it.
\* calls lists the page requests issued, each with its HTTP status (0: no
\* answer).
RECURSIVE AdzunaLoop(_, _, _, _)
AdzunaLoop(resps, q, pages, acc) ==
    IF q > Len(resps) \/ acc.quota THEN acc
    ELSE AdzunaLoop(resps, q + 1, pages,
                    AdzunaMerge(acc, fetch_adzuna_jobs(resps[q], pages)))

\* The dict fetch_greenhouse_jobs(token) appends for job j.
GreenhouseRecord(token, j) ==
    [feed          |-> FEED_GREENHOUSE,
     company       |-> token,
     title         |-> normalize_text(j.title),
     location      |-> normalize_text(j.location),
     location_area |-> <<>>,
     posted_at     |-> EMPTY,
     url           |-> j.absolute_url,
     description   |-> EMPTY]

fetch_greenhouse_jobs(token, resp) ==
    IF resp.kind # "ok" THEN <<>>
    ELSE [i \in 1..Len(resp.jobs) |-> GreenhouseRecord(token, resp.jobs[i])]

\* The dict fetch_lever_jobs(token) appends for posting j.
LeverRecord(token, j) ==
    [feed          |-> FEED_LEVER,
     company       |-> token,
     title         |-> normalize_text(j.text),
     location      |-> normalize_text(Or(j.location, EMPTY)),
     location_area |-> <<>>,
     posted_at     |-> EMPTY,
     url           |-> Or(Or(j.hostedUrl, j.applyUrl), j.url),
     description   |-> EMPTY]

fetch_lever_jobs(token, resp) ==
    IF resp.kind # "ok" THEN <<>>
    ELSE [i \in 1..Len(resp.jobs) |-> LeverRecord(token, resp.jobs[i])]

\* "greenhouse", "lever"
ATS_GREENHOUSE == <<103, 114, 101, 101, 110, 104, 111, 117, 115, 101>>
ATS_LEVER == <<108, 101, 118, 101, 114>>

\* One row of companies.csv with ats and token already trimmed: the board that
\* is asked, if any, and the records it gives.
BoardJobs(ats, tok, resp) ==
    IF tok = EMPTY THEN <<>>
    ELSE IF ats = ATS_GREENHOUSE THEN fetch_greenhouse_jobs(tok, resp)
    ELSE IF ats = ATS_LEVER THEN fetch_lever_jobs(tok, resp)
    ELSE <<>>

\* The watchlist loop over the rows of companies.csv from row i on; resps[i] is
\* the answer of the board of row i.
RECURSIVE WatchlistLoop(_, _, _)
WatchlistLoop(rows, resps, i) ==
    IF i > Len(rows) THEN <<>>
    ELSE BoardJobs(Lower(Strip(Or(rows[i].ats, EMPTY))),
                   Strip(Or(rows[i].token, EMPTY)), resps[i])
         \o WatchlistLoop(rows, resps, i + 1)

(***************************************************************************)
(* Web discovery: Bing results -> career pages -> JSON-LD JobPosting.      *)
(***************************************************************************)

BLOCKED_DOMAINS ==
    { <<108, 105, 110, 107, 101, 100, 105, 110, 46, 99, 111, 109>>,   \* "linkedin.com"
      <<105, 110, 100, 101, 101, 100, 46, 99, 111, 109>>,   \* "indeed.com"
      <<103, 108, 97, 115, 115, 100, 111, 111, 114, 46, 99, 111, 109>>,   \* "glassdoor.com"
      <<122, 105, 112, 114, 101, 99, 114, 117, 105, 116, 101, 114, 46, 99, 111, 109>>,   \* "ziprecruiter.com"
      <<109, 111, 110, 115, 116, 101, 114, 46, 99, 111, 109>>,   \* "monster.com"
      <<115, 105, 109, 112, 108, 121, 104, 105, 114, 101, 100, 46, 99, 111, 109>>,   \* "simplyhired.com"
      <<116, 97, 108, 101, 110, 116, 46, 99, 111, 109>>,   \* "talent.com"
      <<115, 110, 97, 103, 97, 106, 111, 98, 46, 99, 111, 109>>,   \* "snagajob.com"
      <<99, 97, 114, 101, 101, 114, 98, 117, 105, 108, 100, 101, 114, 46, 99, 111, 109>> }   \* "careerbuilder.com"

CAREER_PATH_HINTS ==
    { <<47, 99, 97, 114, 101, 101, 114>>,   \* "/career"
      <<47, 106, 111, 98>>,   \* "/job"
      <<47, 106, 111, 105, 110>>,   \* "/join"
      <<47, 111, 112, 112, 111, 114, 116, 117, 110, 105, 116>>,   \* "/opportunit"
      <<47, 118, 97, 99, 97, 110, 99>> }   \* "/vacanc"

\* The first index of s at or after i whose element is in chars, or Len(s) + 1.
RECURSIVE FirstOf(_, _, _)
FirstOf(s, i, chars) ==
    IF i > Len(s) THEN Len(s) + 1
    ELSE IF s[i] \in chars THEN i
    ELSE FirstOf(s, i + 1, chars)

\* Letters, digits, "+", "-", ".": the characters of a URL scheme.
IsSchemeChar(c) == (c \in 48..57) \/ (c \in 65..90) \/ (c \in 97..122) \/ c \in {43, 45, 46}

\* url without its "scheme:", colon being the index of the first ":" in url.
AfterScheme(url, colon) ==
    IF /\ colon > 1 /\ colon <= Len(url)
       /\ \A k \in 1..(colon - 1) : IsSchemeChar(url[k])
       /\ (url[1] \in 65..90 \/ url[1] \in 97..122)
    THEN SubSeq(url, colon + 1, Len(url))
    ELSE url

\* The authority of "//authority/path?query#fragment".
Authority(rest) ==
    IF Len(rest) >= 2 /\ rest[1] = 47 /\ rest[2] = 47
    THEN SubSeq(rest, 3, FirstOf(rest, 3, {47, 63, 35}) - 1)
    ELSE EMPTY

\* urlparse(url).netloc: what follows "scheme://" up to the first "/", "?" or
\* "#", user-info and port included.
Netloc(url) == Authority(AfterScheme(url, FirstOf(url, 1, {58})))

\* The last index of s whose element is c, or 0.
RECURSIVE LastIndexOf(_, _, _)
LastIndexOf(s, c, i) ==
    IF i = 0 THEN 0 ELSE IF s[i] = c THEN i ELSE LastIndexOf(s, c, i - 1)

\* urlparse(url).netloc.split(":")[0]
NetlocName(netloc) == SubSeq(netloc, 1, FirstOf(netloc, 1, {58}) - 1)

\* The host a request for this authority goes to (urlparse(...).hostname):
\* user-info up to the last "@" and a ":port" dropped, lower-cased.
Hostname(netloc) ==
    Lower(NetlocName(SubSeq(netloc, LastIndexOf(netloc, 64, Len(netloc)) + 1, Len(netloc))))

\* any(domain.endswith(bd) for bd in BLOCKED_DOMAINS)
EndsWithBlocked(domain) == \E bd \in BLOCKED_DOMAINS : EndsWith(domain, bd)

\* re.search(r"/careers?|/jobs?|/join|/opportunit|/vacanc", url, re.I)
HasCareerPath(url) == \E h \in CAREER_PATH_HINTS : Contains(h, Lower(url))

\* The tests of discover_job_pages_for_role on one result url.
KeepsUrl(url) ==
    /\ url # None /\ url # EMPTY
    /\ ~EndsWithBlocked(Lower(Netloc(url)))
    /\ HasCareerPath(url)

\* discover_job_pages_for_role on the value list of one Bing answer: the urls
\* kept, in order; the loop ends once per_role urls are kept.
RECURSIVE DiscoverFrom(_, _, _)
DiscoverFrom(results, per_role, urls) ==
    IF results = <<>> THEN urls
    ELSE IF ~KeepsUrl(Head(results)) THEN DiscoverFrom(Tail(results), per_role, urls)
    ELSE IF Len(urls) + 1 >= per_role THEN Append(urls, Head(results))
    ELSE DiscoverFrom(Tail(results), per_role, Append(urls, Head(results)))

discover_job_pages_for_role(results, per_role) == DiscoverFrom(results, per_role, <<>>)

(***************************************************************************)
(* urllib.robotparser.RobotFileParser as can_fetch uses it.  A parser is   *)
(* [disallow_all, allow_all, last_checked, deny]: deny says that the rules *)
(* read forbid the host's pages to the user agent.                         *)
(***************************************************************************)
FreshParser ==
    [disallow_all |-> FALSE, allow_all |-> FALSE, last_checked |-> FALSE, deny |-> FALSE]

\* What an attempt to read robots.txt can do.
RobotsOutcomes == {"allow", "deny", "http403", "http404", "http500", "error"}

\* rp.read() for an outcome that raises nothing: 401/403 set disallow_all, any
\* other 4xx sets allow_all, another HTTP error sets nothing, a body is parsed.
ParserAfterRead(outcome) ==
    CASE outcome = "http403" -> [FreshParser EXCEPT !.disallow_all = TRUE]
      [] outcome = "http404" -> [FreshParser EXCEPT !.allow_all = TRUE]
      [] outcome = "http500" -> FreshParser
      [] outcome = "allow"   -> [FreshParser EXCEPT !.last_checked = TRUE]
      [] outcome = "deny"    -> [FreshParser EXCEPT !.last_checked = TRUE, !.deny = TRUE]

\* rp.can_fetch(USER_AGENT, url)
ParserCanFetch(rp) ==
    IF rp.disallow_all THEN FALSE
    ELSE IF rp.allow_all THEN TRUE
    ELSE IF ~rp.last_checked THEN FALSE
    ELSE ~rp.deny

\* A request to the robots.txt of an authority, and a page request.
RobotsRequest(domain) == [kind |-> "robots", host |-> Hostname(domain), target |-> domain]
PageRequest(url) == [kind |-> "page", host |-> Hostname(Netloc(url)), target |-> url]

\* can_fetch for a url whose lower-cased netloc is domain; robots[domain] is
\* what reading https://{domain}/robots.txt does.  Yields the answer, the cache
\* afterwards and the requests issued.
CanFetchDomain(domain, cache, robots) ==
    IF EndsWithBlocked(domain)
    THEN [ok |-> FALSE, cache |-> cache, reqs |-> <<>>]
    ELSE IF domain \in DOMAIN cache
    THEN [ok |-> ParserCanFetch(cache[domain]), cache |-> cache, reqs |-> <<>>]
    ELSE IF robots[domain] = "error"
    THEN [ok    |-> TRUE,
          cache |-> (domain :> FreshParser) @@ cache,
          reqs  |-> <<RobotsRequest(domain)>>]
    ELSE [ok    |-> ParserCanFetch(ParserAfterRead(robots[domain])),
          cache |-> (domain :> ParserAfterRead(robots[domain])) @@ cache,
          reqs  |-> <<RobotsRequest(domain)>>]

\* can_fetch(url) with _robots_cache = cache
can_fetch(url, cache, robots) == CanFetchDomain(Lower(Netloc(url)), cache, robots)

\* "jobposting", "http", ", ", ":"
JOBPOSTING == <<106, 111, 98, 112, 111, 115, 116, 105, 110, 103>>
HTTP == <<104, 116, 116, 112>>
COMMA_SPACE == <<44, 32>>

\* url = apply_url if apply_url.startswith("http") else url
PostingUrl(apply_url, url) == IF StartsWith(apply_url, HTTP) THEN apply_url ELSE url

\* ", ".join(x for x in [locality, region, country] if x)
PostingLocation(parts) ==
    LET NonEmpty(x) == x # EMPTY IN Join(COMMA_SPACE, SelectSeq(parts, NonEmpty))

\* The record parse_jobposting_from_html appends for a JobPosting object obj of
\* the page at url whose title is a target title.
WebRecord(obj, url) ==
    [feed          |-> FEED_WEB,
     company       |-> normalize_text(Or(obj.org_name, NetlocName(Netloc(url)))),
     title         |-> normalize_text(obj.title),
     location      |-> PostingLocation(<<normalize_text(obj.locality),
                                         normalize_text(obj.region),
                                         normalize_text(obj.country)>>),
     location_area |-> <<>>,
     posted_at     |-> normalize_text(Or(obj.datePosted, EMPTY)),
     url           |-> PostingUrl(normalize_text(Or(Or(obj.sameAs, obj.url), url)), url),
     description   |-> EMPTY]

(***************************************************************************)
(* Sample payloads: what the feeds can answer.                             *)
(***************************************************************************)

\* Adzuna result: Controls Engineer at Acme Mfg, Dallas (area given), link padded with blanks
AZ_CONTROLS ==
    [company      |-> <<65, 99, 109, 101, 32, 77, 102, 103>>,   \* "Acme Mfg"
     title        |-> <<67, 111, 110, 116, 114, 111, 108, 115, 32, 32, 69, 110, 103, 105, 110, 101, 101, 114>>,   \* "Controls  Engineer"
     location     |-> <<68, 97, 108, 108, 97, 115, 44, 32, 84, 88>>,   \* "Dallas, TX"
     area         |-> <<<<85, 83>>, <<84, 101, 120, 97, 115>>, <<68, 97, 108, 108, 97, 115, 32, 67, 111, 117, 110, 116, 121>>>>,   \* ["US", "Texas", "Dallas County"]
     created      |-> <<50, 48, 50, 53, 45, 48, 51, 45, 48, 49>>,   \* "2025-03-01"
     redirect_url |-> <<32, 104, 116, 116, 112, 115, 58, 47, 47, 97, 99, 109, 101, 46, 99, 111, 109, 47, 106, 111, 98, 115, 47, 49, 32>>,   \* " https://acme.com/jobs/1 "
     description  |-> <<80, 76, 67>>]   \* "PLC"

\* Adzuna result: Software Test Engineer posted by an agency, no date
AZ_TEST ==
    [company      |-> <<82, 97, 110, 100, 115, 116, 97, 100, 32, 69, 110, 103, 105, 110, 101, 101, 114, 105, 110, 103>>,   \* "Randstad Engineering"
     title        |-> <<83, 111, 102, 116, 119, 97, 114, 101, 32, 84, 101, 115, 116, 32, 69, 110, 103, 105, 110, 101, 101, 114>>,   \* "Software Test Engineer"
     location     |-> <<65, 117, 115, 116, 105, 110, 44, 32, 84, 101, 120, 97, 115>>,   \* "Austin, Texas"
     area         |-> <<<<85, 83>>, <<84, 101, 120, 97, 115>>>>,   \* ["US", "Texas"]
     created      |-> None,
     redirect_url |-> <<104, 116, 116, 112, 115, 58, 47, 47, 97, 100, 122, 117, 110, 97, 46, 99, 111, 109, 47, 97, 100, 47, 50>>,   \* "https://adzuna.com/ad/2"
     description  |-> <<83, 101, 108, 101, 110, 105, 117, 109>>]   \* "Selenium"

\* Greenhouse job (A): Controls Engineer, Dallas, TX
GH_A ==
    [title        |-> <<67, 111, 110, 116, 114, 111, 108, 115, 32, 69, 110, 103, 105, 110, 101, 101, 114>>,   \* "Controls Engineer"
     location     |-> <<68, 97, 108, 108, 97, 115, 44, 32, 84, 88>>,   \* "Dallas, TX"
     absolute_url |-> <<104, 116, 116, 112, 115, 58, 47, 47, 97, 99, 109, 101, 46, 99, 111, 109, 47, 106, 111, 98, 115, 47, 49>>]   \* "https://acme.com/jobs/1"

\* Greenhouse job (B): SDET, Austin, TX
GH_B ==
    [title        |-> <<83, 68, 69, 84>>,   \* "SDET"
     location     |-> <<65, 117, 115, 116, 105, 110, 44, 32, 84, 88>>,   \* "Austin, TX"
     absolute_url |-> <<104, 116, 116, 112, 115, 58, 47, 47, 97, 99, 109, 101, 46, 99, 111, 109, 47, 106, 111, 98, 115, 47, 50>>]   \* "https://acme.com/jobs/2"

\* Greenhouse job (C): Controls Manager, Toronto, ON
GH_C ==
    [title        |-> <<67, 111, 110, 116, 114, 111, 108, 115, 32, 77, 97, 110, 97, 103, 101, 114>>,   \* "Controls Manager"
     location     |-> <<84, 111, 114, 111, 110, 116, 111, 44, 32, 79, 78>>,   \* "Toronto, ON"
     absolute_url |-> <<104, 116, 116, 112, 115, 58, 47, 47, 97, 99, 109, 101, 46, 99, 111, 109, 47, 106, 111, 98, 115, 47, 51>>]   \* "https://acme.com/jobs/3"

\* Lever posting: QA Automation Engineer, Columbus, Ohio
LV_QA ==
    [text      |-> <<81, 65, 32, 65, 117, 116, 111, 109, 97, 116, 105, 111, 110, 32, 69, 110, 103, 105, 110, 101, 101, 114>>,   \* "QA Automation Engineer"
     location  |-> <<67, 111, 108, 117, 109, 98, 117, 115, 44, 32, 79, 104, 105, 111>>,   \* "Columbus, Ohio"
     hostedUrl |-> <<104, 116, 116, 112, 115, 58, 47, 47, 106, 111, 98, 115, 46, 108, 101, 118, 101, 114, 46, 99, 111, 47, 122, 101, 116, 97, 47, 57>>,   \* "https://jobs.lever.co/zeta/9"
     applyUrl  |-> None,
     url       |-> None]

\* Lever posting: Plant Manager, no location, only an apply link
LV_PLANT ==
    [text      |-> <<80, 108, 97, 110, 116, 32, 77, 97, 110, 97, 103, 101, 114>>,   \* "Plant Manager"
     location  |-> None,
     hostedUrl |-> None,
     applyUrl  |-> <<104, 116, 116, 112, 115, 58, 47, 47, 106, 111, 98, 115, 46, 108, 101, 118, 101, 114, 46, 99, 111, 47, 122, 101, 116, 97, 47, 55, 47, 97, 112, 112, 108, 121>>,   \* "https://jobs.lever.co/zeta/7/apply"
     url       |-> None]

\* JSON-LD JobPosting: Controls Engineer at Acme Mfg, Dallas, TX
LD_CONTROLS ==
    [type       |-> <<74, 111, 98, 80, 111, 115, 116, 105, 110, 103>>,   \* "JobPosting"
     title      |-> <<67, 111, 110, 116, 114, 111, 108, 115, 32, 69, 110, 103, 105, 110, 101, 101, 114>>,   \* "Controls Engineer"
     org_name   |-> <<65, 99, 109, 101, 32, 77, 102, 103>>,   \* "Acme Mfg"
     locality   |-> <<68, 97, 108, 108, 97, 115>>,   \* "Dallas"
     region     |-> <<84, 88>>,   \* "TX"
     country    |-> None,
     datePosted |-> <<50, 48, 50, 53, 45, 48, 49, 45, 49, 53>>,   \* "2025-01-15"
     sameAs     |-> None,
     url        |-> <<104, 116, 116, 112, 115, 58, 47, 47, 97, 99, 109, 101, 46, 99, 111, 109, 47, 106, 111, 98, 115, 47, 49>>]   \* "https://acme.com/jobs/1"

\* JSON-LD JobPosting: Quality Manager at a staffing firm, Toronto
LD_TORONTO ==
    [type       |-> <<106, 111, 98, 80, 111, 115, 116, 105, 110, 103>>,   \* "jobPosting"
     title      |-> <<81, 117, 97, 108, 105, 116, 121, 32, 77, 97, 110, 97, 103, 101, 114>>,   \* "Quality Manager"
     org_name   |-> <<77, 97, 112, 108, 101, 32, 83, 116, 97, 102, 102, 105, 110, 103>>,   \* "Maple Staffing"
     locality   |-> <<84, 111, 114, 111, 110, 116, 111>>,   \* "Toronto"
     region     |-> <<79, 78>>,   \* "ON"
     country    |-> <<67, 65>>,   \* "CA"
     datePosted |-> None,
     sameAs     |-> None,
     url        |-> None]

\* JSON-LD Organization object
LD_ORG ==
    [type       |-> <<79, 114, 103, 97, 110, 105, 122, 97, 116, 105, 111, 110>>,   \* "Organization"
     title      |-> None,
     org_name   |-> None,
     locality   |-> None,
     region     |-> None,
     country    |-> None,
     datePosted |-> None,
     sameAs     |-> None,
     url        |-> None]

\* "Acme Mfg"
TOKEN_ACME == <<65, 99, 109, 101, 32, 77, 102, 103>>

\* " Zeta Works"
TOKEN_ZETA == <<32, 90, 101, 116, 97, 32, 87, 111, 114, 107, 115>>

\* "https://acme.com/careers"
URL_ACME_CAREERS == <<104, 116, 116, 112, 115, 58, 47, 47, 97, 99, 109, 101, 46, 99, 111, 109, 47, 99, 97, 114, 101, 101, 114, 115>>

\* "https://acme.com/about"
URL_ACME_ABOUT == <<104, 116, 116, 112, 115, 58, 47, 47, 97, 99, 109, 101, 46, 99, 111, 109, 47, 97, 98, 111, 117, 116>>

\* "https://Jobs.Globex.com/jobs?q=plc"
URL_GLOBEX_JOBS == <<104, 116, 116, 112, 115, 58, 47, 47, 74, 111, 98, 115, 46, 71, 108, 111, 98, 101, 120, 46, 99, 111, 109, 47, 106, 111, 98, 115, 63, 113, 61, 112, 108, 99>>

\* "https://www.linkedin.com/jobs/1"
URL_LINKEDIN == <<104, 116, 116, 112, 115, 58, 47, 47, 119, 119, 119, 46, 108, 105, 110, 107, 101, 100, 105, 110, 46, 99, 111, 109, 47, 106, 111, 98, 115, 47, 49>>

\* "https://www.linkedin.com:443/jobs/1"
URL_LINKEDIN_PORT == <<104, 116, 116, 112, 115, 58, 47, 47, 119, 119, 119, 46, 108, 105, 110, 107, 101, 100, 105, 110, 46, 99, 111, 109, 58, 52, 52, 51, 47, 106, 111, 98, 115, 47, 49>>

\* "https://jobs@www.linkedin.com/jobs/1"
URL_LINKEDIN_USER == <<104, 116, 116, 112, 115, 58, 47, 47, 106, 111, 98, 115, 64, 119, 119, 119, 46, 108, 105, 110, 107, 101, 100, 105, 110, 46, 99, 111, 109, 47, 106, 111, 98, 115, 47, 49>>

\* "https://acme.com/jobs/1"
URL_ACME_JOBS_1 == <<104, 116, 116, 112, 115, 58, 47, 47, 97, 99, 109, 101, 46, 99, 111, 109, 47, 106, 111, 98, 115, 47, 49>>

\* "https://ACME.com/jobs/2"
URL_ACME_JOBS_2 == <<104, 116, 116, 112, 115, 58, 47, 47, 65, 67, 77, 69, 46, 99, 111, 109, 47, 106, 111, 98, 115, 47, 50>>

DEFAULT_EXTRA_AGENCIES ==
    { <<67, 121, 98, 101, 114, 67, 111, 100, 101, 114, 115>>,   \* "CyberCoders"
      <<75, 101, 108, 108, 121, 32, 83, 101, 114, 118, 105, 99, 101, 115>>,   \* "Kelly Services"
      <<65, 101, 114, 111, 116, 101, 107>>,   \* "Aerotek"
      <<73, 110, 115, 105, 103, 104, 116, 32, 71, 108, 111, 98, 97, 108>>,   \* "Insight Global"
      <<82, 111, 98, 101, 114, 116, 32, 72, 97, 108, 102>> }   \* "Robert Half"

ZETA_EXTRA_AGENCIES ==
    { <<90, 101, 116, 97, 32, 87, 111, 114, 107, 115>> }   \* "Zeta Works"

(***************************************************************************)
(* The classifiers on the sample payloads.  Every record a connector can   *)
(* build from them is in SampleRecords; each classifier is evaluated once  *)
(* on each title, location and company of these records.                   *)
(***************************************************************************)
SampleUrls ==
    {URL_ACME_CAREERS, URL_ACME_ABOUT, URL_GLOBEX_JOBS, URL_LINKEDIN,
     URL_LINKEDIN_PORT, URL_LINKEDIN_USER, URL_ACME_JOBS_1, URL_ACME_JOBS_2}
ExtraChoices == {DEFAULT_EXTRA_AGENCIES, ZETA_EXTRA_AGENCIES}

SampleRecords ==
    {AdzunaRecord(j) : j \in {AZ_CONTROLS, AZ_TEST}}
    \cup {GreenhouseRecord(Strip(t), j) : t \in {TOKEN_ACME, TOKEN_ZETA}, j \in {GH_A, GH_B, GH_C}}
    \cup {LeverRecord(Strip(t), j) : t \in {TOKEN_ACME, TOKEN_ZETA}, j \in {LV_QA, LV_PLANT}}
    \cup {WebRecord(o, u) : o \in {LD_CONTROLS, LD_TORONTO, LD_ORG}, u \in SampleUrls}

\* title_is_target(t)
TitleIsTarget ==
    [t \in {r.title : r \in SampleRecords} |-> title_is_target(t)]

\* is_us_location(l[1], l[2] or [])
IsUsLocation ==
    [l \in {<<r.location, r.location_area>> : r \in SampleRecords} |->
        is_us_location(l[1], l[2])]

\* is_staffing_agency(c[1], c[2])
IsStaffingAgency ==
    [c \in {r.company : r \in SampleRecords} \X ExtraChoices |->
        is_staffing_agency(c[1], c[2])]

\* The object loop: an object is emitted when its @type is JobPosting (in any
\* case) and its normalized title is not empty and is a target title.
EmitsPosting(obj) ==
    /\ obj.type # None
    /\ Lower(obj.type) = JOBPOSTING
    /\ normalize_text(obj.title) # EMPTY
    /\ TitleIsTarget[normalize_text(obj.title)]

\* The JobPosting objects of a page answer that are emitted.
PageObjects(page) ==
    IF page.kind = "ok" /\ page.status = 200
    THEN SelectSeq(page.objects, EmitsPosting) ELSE <<>>

Postings(objs, url) == [i \in 1..Len(objs) |-> WebRecord(objs[i], url)]

\* parse_jobposting_from_html(url) after can_fetch(url) has answered cf.
ParseAfterCanFetch(url, cf, pages) ==
    IF ~cf.ok THEN [postings |-> <<>>, cache |-> cf.cache, reqs |-> cf.reqs]
    ELSE [postings |-> Postings(PageObjects(pages[url]), url),
          cache    |-> cf.cache,
          reqs     |-> Append(cf.reqs, PageRequest(url))]

\* parse_jobposting_from_html(url): pages[url] is what the GET of url does, an
\* "ok" answer carrying its status and the JSON-LD objects of the page.
parse_jobposting_from_html(url, cache, robots, pages) ==
    ParseAfterCanFetch(url, can_fetch(url, cache, robots), pages)

\* seen_per_domain.get(host, 0)
SeenCount(seen, host) == IF host \in DOMAIN seen THEN seen[host] ELSE 0

\* web_discovery after parse_jobposting_from_html has returned got for a url
\* of host: the count of the host goes up when the page gave postings.
WebMerge(acc, host, got) ==
    [jobs  |-> acc.jobs \o got.postings,
     cache |-> got.cache,
     seen  |-> IF got.postings # <<>>
               THEN (host :> (SeenCount(acc.seen, host) + 1)) @@ acc.seen
               ELSE acc.seen,
     reqs  |-> acc.reqs \o got.reqs]

\* The url loop of web_discovery for one role; acc carries jobs, the robots
\* cache, seen_per_domain and the requests issued so far.
RECURSIVE WebUrls(_, _, _, _, _)
WebUrls(urls, per_domain_cap, robots, pages, acc) ==
    IF urls = <<>> THEN acc
    ELSE IF SeenCount(acc.seen, Lower(Netloc(Head(urls)))) >= per_domain_cap
    THEN WebUrls(Tail(urls), per_domain_cap, robots, pages, acc)
    ELSE WebUrls(Tail(urls), per_domain_cap, robots, pages,
             WebMerge(acc, Lower(Netloc(Head(urls))),
                 parse_jobposting_from_html(Head(urls), acc.cache, robots, pages)))

\* The role loop of web_discovery: bing[i] is the value list Bing answers for
\* role query i.
RECURSIVE WebRoles(_, _, _, _, _, _)
WebRoles(bing, per_role, per_domain_cap, robots, pages, acc) ==
    IF bing = <<>> THEN acc
    ELSE WebRoles(Tail(bing), per_role, per_domain_cap, robots, pages,
             WebUrls(discover_job_pages_for_role(Head(bing), per_role),
                     per_domain_cap, robots, pages, acc))

web_discovery(bing, per_role, per_domain_cap, cache, robots, pages) ==
    WebRoles(bing, per_role, per_domain_cap, robots, pages,
             [jobs |-> <<>>, cache |-> cache, seen |-> <<>>, reqs |-> <<>>])

(***************************************************************************)
(* Records and the filter pipeline of the "Fetch Jobs" run.                *)
(*                                                                         *)
(* A job record is the dict the connectors build: feed, company, title,    *)
(* location, location_area, posted_at, url, description.  A table row is a *)
(* record cut to the columns company, title, location, posted_at, url,     *)
(* feed.  A DataFrame is the sequence of its rows.                         *)
(***************************************************************************)

\* raw[col].fillna("").astype(str).str.strip() on one cell
CleanCell(v) == IF v = None THEN EMPTY ELSE Strip(v)

\* The clean loop over the six columns, and the cut raw[[...]] to them.
CleanRow(r) ==
    [company   |-> CleanCell(r.company),
     title     |-> CleanCell(r.title),
     location  |-> CleanCell(r.location),
     posted_at |-> CleanCell(r.posted_at),
     url       |-> CleanCell(r.url),
     feed      |-> CleanCell(r.feed)]

\* subset=["company","title","location","url"]
DedupeKey(row) == <<row.company, row.title, row.location, row.url>>

\* TRUE when a row of rows has the key of row.
HasKey(rows, row) == \E j \in 1..Len(rows) : DedupeKey(rows[j]) = DedupeKey(row)

\* A removal pass that stops at the first duplicate it drops.
RECURSIVE drop_first_duplicate_only(_, _, _)
drop_first_duplicate_only(rows, i, acc) ==
    IF i > Len(rows) THEN acc
    ELSE IF HasKey(acc, rows[i]) THEN acc \o SubSeq(rows, i + 1, Len(rows))
    ELSE drop_first_duplicate_only(rows, i + 1, Append(acc, rows[i]))

\* Keeps the last row of each key instead of the first.
RECURSIVE drop_duplicates_keep_last(_, _, _)
drop_duplicates_keep_last(rows, i, acc) ==
    IF i > Len(rows) THEN acc
    ELSE IF HasKey(SubSeq(rows, i + 1, Len(rows)), rows[i])
    THEN drop_duplicates_keep_last(rows, i + 1, acc)
    ELSE drop_duplicates_keep_last(rows, i + 1, Append(acc, rows[i]))

\* raw.drop_duplicates(subset=[...], keep="first") from row i on, acc being the
\* rows kept so far: a row stays unless an earlier row has its key; the rows
\* that stay keep their order.
RECURSIVE DropDuplicatesFrom(_, _, _)
DropDuplicatesFrom(rows, i, acc) ==
    IF i > Len(rows) THEN acc
    ELSE IF HasKey(acc, rows[i]) THEN DropDuplicatesFrom(rows, i + 1, acc)
    ELSE DropDuplicatesFrom(rows, i + 1, Append(acc, rows[i]))

drop_duplicates(rows) == DropDuplicatesFrom(rows, 1, <<>>)

\* The row filters of the run on one record: strict titles, the US filter when
\* us_only, the agency filter when exclude_agencies.
PassesFilters(r, us_only_opt, exclude_opt, extra) ==
    /\ TitleIsTarget[r.title]
    /\ us_only_opt => IsUsLocation[<<r.location, r.location_area>>]
    /\ exclude_opt => ~IsStaffingAgency[<<r.company, extra>>]

\* The clean loop on every row.
CleanRows(rows) == [i \in 1..Len(rows) |-> CleanRow(rows[i])]

\* raw after the filters, the clean loop and drop_duplicates, for raw not empty.
FilteredTable(jobs, us_only_opt, exclude_opt, extra) ==
    LET Keep(r) == PassesFilters(r, us_only_opt, exclude_opt, extra)
    IN  drop_duplicates(CleanRows(SelectSeq(jobs, Keep)))

\* a < b for str (code point order), comparing from index i on
RECURSIVE StrLessFrom(_, _, _)
StrLessFrom(a, b, i) ==
    IF i > Len(b) THEN FALSE
    ELSE IF i > Len(a) THEN TRUE
    ELSE IF a[i] # b[i] THEN a[i] < b[i]
    ELSE StrLessFrom(a, b, i + 1)

\* Row order of sort_values(["company","title"]).
RowBefore(x, y) ==
    \/ StrLessFrom(x.company, y.company, 1)
    \/ x.company = y.company /\ StrLessFrom(x.title, y.title, 1)

\* r put into the sorted rows behind every row that is not after it.
RECURSIVE InsertRow(_, _)
InsertRow(r, sorted) ==
    IF sorted = <<>> THEN <<r>>
    ELSE IF RowBefore(r, sorted[1]) THEN <<r>> \o sorted
    ELSE <<sorted[1]>> \o InsertRow(r, Tail(sorted))

RECURSIVE InsertByDate(_, _)
InsertByDate(r, sorted) ==
    IF sorted = <<>> THEN <<r>>
    ELSE IF StrLessFrom(sorted[1].posted_at, r.posted_at, 1) THEN <<r>> \o sorted
    ELSE <<sorted[1]>> \o InsertByDate(r, Tail(sorted))

RECURSIVE SortRows(_, _, _)
SortRows(rows, i, acc) ==
    IF i > Len(rows) THEN acc ELSE SortRows(rows, i + 1, InsertRow(rows[i], acc))

RECURSIVE SortRowsByDate(_, _, _)
SortRowsByDate(rows, i, acc) ==
    IF i > Len(rows) THEN acc ELSE SortRowsByDate(rows, i + 1, InsertByDate(rows[i], acc))

\* A sort on the posting date string, newest first.
sort_by_posted_at_desc(rows) == SortRowsByDate(rows, 1, <<>>)

\* df.sort_values(["company","title"]): ascending; the sort on several keys is
\* stable, so rows with equal keys keep their order in df.
sort_values(rows) == SortRows(rows, 1, <<>>)

(***************************************************************************)
(* State.                                                                  *)
(***************************************************************************)
VARIABLES
    us_only,              \* sidebar: "US only (all feeds)"
    exclude_agencies,     \* sidebar: "Exclude staffing agencies"
    extra_agencies_set,   \* sidebar: the extra agency names, split and trimmed
    per_role,             \* sidebar: "Pages to discover per role (search hits)"
    per_domain_cap,       \* sidebar: "Max pages per domain"
    adzuna_quota_hit,     \* st.session_state["_adzuna_quota_hit"]
    last_results,         \* st.session_state["_last_results"]: [set, table]
    robots_cache,         \* _robots_cache: authority -> parser
    fetches,              \* presses of "Fetch Jobs" in this session
    df,                   \* the result table of the current script run
    shown,                \* the "All Results" table as displayed
    jobs,                 \* the raw records of the current run, as concatenated
    adzuna_calls,         \* the Adzuna page requests of the current run
    http_log,             \* the robots.txt and page requests of the current run
    run_error,            \* the current run ended with an exception no code caught
    us_display,           \* is_us_location: the display argument
    us_area,              \* is_us_location: the area argument
    us_called,            \* is_us_location has returned
    us_result,            \* its return value
    ag_name,              \* is_staffing_agency: the name argument
    ag_extra,             \* is_staffing_agency: the extra argument
    ag_called,            \* is_staffing_agency has returned
    ag_result,            \* its return value
    dd_rows,              \* drop_duplicates: the rows it is applied to
    dd_once,              \* the rows after one application
    dd_twice,             \* the rows after a second application
    dd_step,              \* how many applications were made
    cf_log,               \* can_fetch: the calls made, each with its url and answer
    tt_title,             \* title_is_target: the title argument
    tt_called,            \* title_is_target has returned
    tt_result             \* its return value

optionVars == <<us_only, exclude_agencies, extra_agencies_set>>
sliderVars == <<per_role, per_domain_cap>>
sessionVars == <<adzuna_quota_hit, last_results, robots_cache, fetches>>
runVars == <<df, shown, jobs, adzuna_calls, http_log, run_error>>
appVars == <<optionVars, sliderVars, sessionVars, runVars>>
usVars == <<us_display, us_area, us_called, us_result>>
agVars == <<ag_name, ag_extra, ag_called, ag_result>>
ddVars == <<dd_rows, dd_once, dd_twice, dd_step>>
cfVars == <<cf_log>>
ttVars == <<tt_title, tt_called, tt_result>>
vars == <<appVars, usVars, agVars, ddVars, cfVars, ttVars>>

\* A classifier that is not under test has no call in flight.
UsIdle == us_display = EMPTY /\ us_area = <<>> /\ us_called = FALSE /\ us_result = FALSE
AgIdle == ag_name = EMPTY /\ ag_extra = {} /\ ag_called = FALSE /\ ag_result = FALSE
DdIdle == dd_rows = <<>> /\ dd_once = <<>> /\ dd_twice = <<>> /\ dd_step = 0
CfIdle == cf_log = <<>>
TtIdle == tt_title = EMPTY /\ tt_called = FALSE /\ tt_result = FALSE

(***************************************************************************)
(* The script run.  Streamlit runs the script top to bottom on every       *)
(* interaction: with the "Fetch Jobs" button pressed (FetchJobs) or after  *)
(* a change of a sidebar widget (Rerun).  The secrets ADZUNA_APP_ID,       *)
(* ADZUNA_APP_KEY and BING_SEARCH_KEY are set; a feed is on when its       *)
(* checkbox is ticked.                                                     *)
(***************************************************************************)

NoResults == [set |-> FALSE, table |-> <<>>]

\* Presses of "Fetch Jobs" followed in one session.
MaxFetches == 2

\* The feeds of the run, answering as adz, wl and web say:
\*   adz = [on, pages, resps]   resps[q][p]: the answer to page p of role query q
\*   wl  = [on, rows, resps]    rows of companies.csv and the answer of each board
\*   web = [on, bing, robots, pages]
RunAdzuna(adz) ==
    IF adz.on
    THEN AdzunaLoop(adz.resps, 1, adz.pages, [jobs |-> <<>>, quota |-> FALSE, calls |-> <<>>])
    ELSE [jobs |-> <<>>, quota |-> adzuna_quota_hit, calls |-> <<>>]

RunWatchlist(wl) == IF wl.on THEN WatchlistLoop(wl.rows, wl.resps, 1) ELSE <<>>

RunWeb(web) ==
    IF web.on
    THEN web_discovery(web.bing, per_role, per_domain_cap,
                       robots_cache, web.robots, web.pages)
    ELSE [jobs |-> <<>>, cache |-> robots_cache, seen |-> <<>>, reqs |-> <<>>]

\* "if all_jobs:" the filters, the clean loop and drop_duplicates.
RunTable(all) ==
    IF all = <<>> THEN <<>>
    ELSE FilteredTable(all, us_only, exclude_agencies, extra_agencies_set)

\* The end of the run with line 570 left out: the table of the run is kept in
\* the session, empty or not.
publish_any_table(a, d, all, table) ==
    /\ fetches < MaxFetches
    /\ fetches' = fetches + 1
    /\ jobs' = all
    /\ adzuna_quota_hit' = a.quota
    /\ adzuna_calls' = a.calls
    /\ robots_cache' = d.cache
    /\ http_log' = d.reqs
    /\ last_results' = IF all # <<>> THEN [set |-> TRUE, table |-> table]
                       ELSE last_results
    /\ df' = IF all # <<>> THEN table
             ELSE IF last_results.set THEN last_results.table
             ELSE <<>>
    /\ shown' = sort_values(df')
    /\ run_error' = FALSE
    /\ UNCHANGED <<optionVars, sliderVars, usVars, agVars, ddVars, cfVars, ttVars>>

\* The end of the run: a table that is not empty is kept in the session and
\* shown; when nothing was fetched, the table kept in the session is shown.
Publish(a, d, all, table) ==
    /\ fetches < MaxFetches
    /\ fetches' = fetches + 1
    /\ jobs' = all
    /\ adzuna_quota_hit' = a.quota
    /\ adzuna_calls' = a.calls
    /\ robots_cache' = d.cache
    /\ http_log' = d.reqs
    /\ last_results' = IF table # <<>> THEN [set |-> TRUE, table |-> table]
                       ELSE last_results
    /\ df' = IF all # <<>> THEN table
             ELSE IF last_results.set THEN last_results.table
             ELSE <<>>
    /\ shown' = sort_values(df')
    /\ run_error' = FALSE
    /\ UNCHANGED <<optionVars, sliderVars, usVars, agVars, ddVars, cfVars, ttVars>>

Filter(a, d, all) == Publish(a, d, all, RunTable(all))

Collect(a, w, d) == Filter(a, d, a.jobs \o w \o d.jobs)

\* "if run:" the script run with the "Fetch Jobs" button pressed.
FetchJobs(adz, wl, web) == Collect(RunAdzuna(adz), RunWatchlist(wl), RunWeb(web))

\* A sidebar widget changes and the script reruns without the button: df stays
\* the empty frame of line 514 and nothing is fetched.
Rerun(us, ex, extra) ==
    /\ <<us, ex, extra>> # <<us_only, exclude_agencies, extra_agencies_set>>
    /\ us_only' = us
    /\ exclude_agencies' = ex
    /\ extra_agencies_set' = extra
    /\ df' = <<>>
    /\ shown' = <<>>
    /\ jobs' = <<>>
    /\ adzuna_calls' = <<>>
    /\ http_log' = <<>>
    /\ run_error' = FALSE
    /\ UNCHANGED <<sliderVars, sessionVars, usVars, agVars, ddVars, cfVars, ttVars>>

\* The first script run of a session, but for the two sliders of web
\* discovery: the sidebar defaults, nothing fetched.
SessionInit ==
    /\ us_only = TRUE
    /\ exclude_agencies = TRUE
    /\ extra_agencies_set = DEFAULT_EXTRA_AGENCIES
    /\ adzuna_quota_hit = FALSE
    /\ last_results = NoResults
    /\ robots_cache = <<>>
    /\ fetches = 0
    /\ df = <<>>
    /\ shown = <<>>
    /\ jobs = <<>>
    /\ adzuna_calls = <<>>
    /\ http_log = <<>>
    /\ run_error = FALSE

\* The first script run of a session: the sliders at their defaults too.
AppInit == SessionInit /\ per_role = 6 /\ per_domain_cap = 3


OkPage(results) == [kind |-> "ok", results |-> results]
OkBoard(boardJobs) == [kind |-> "ok", jobs |-> boardJobs]
HttpError(code) == [kind |-> "http", code |-> code]
Failure == [kind |-> "error"]
HtmlPage(status, objects) == [kind |-> "ok", status |-> status, objects |-> objects]

AdzunaOff == [on |-> FALSE, pages |-> 1, resps |-> <<>>]
WatchlistOff == [on |-> FALSE, rows |-> <<>>, resps |-> <<>>]
WebOff == [on |-> FALSE, bing |-> <<>>, robots |-> <<>>, pages |-> <<>>]

\* companies.csv: Acme Mfg on Greenhouse, Zeta Works on Lever.
COMPANIES_CSV ==
    << [ats |-> ATS_GREENHOUSE, token |-> TOKEN_ACME],
       [ats |-> <<76, 101, 118, 101, 114, 32>>, token |-> TOKEN_ZETA] >>   \* "Lever "

\* One role query, one page: no result, two results, or the quota error.
PipelineAdzuna ==
    {[on |-> TRUE, pages |-> 1, resps |-> <<<<r>>>>] :
        r \in {OkPage(<<>>), OkPage(<<AZ_CONTROLS, AZ_TEST>>), HttpError(429)}}

PipelineWatchlist ==
    {[on |-> TRUE, rows |-> COMPANIES_CSV, resps |-> <<g, l>>] :
        g \in {Failure, OkBoard(<<GH_A, GH_B, GH_C>>)},
        l \in {OkBoard(<<>>), OkBoard(<<LV_QA, LV_PLANT>>)}}

\* Bing finds nothing, or the careers page of acme.com, whose robots.txt allows
\* the fetch.
PipelineWeb ==
    {[on |-> TRUE, bing |-> <<<<>>>>, robots |-> <<>>, pages |-> <<>>],
     [on |-> TRUE, bing |-> <<<<URL_ACME_CAREERS>>>>,
      robots |-> (Lower(Netloc(URL_ACME_CAREERS)) :> "allow"),
      pages |-> (URL_ACME_CAREERS :> HtmlPage(200, <<LD_ORG, LD_CONTROLS, LD_TORONTO>>))]}

Init == AppInit /\ UsIdle /\ AgIdle /\ DdIdle /\ CfIdle /\ TtIdle

Next ==
    \/ \E adz \in PipelineAdzuna, wl \in PipelineWatchlist, web \in PipelineWeb :
           FetchJobs(adz, wl, web)
    \/ \E us \in BOOLEAN, ex \in BOOLEAN, extra \in ExtraChoices : Rerun(us, ex, extra)

Spec == Init /\ [][Next]_vars


(***************************************************************************)
(* Properties of the script run (specification Spec).                      *)
(***************************************************************************)

\* The records (A), (B), (C): what the Greenhouse connector builds from the
\* board of Acme Mfg.
ThreeRecords == fetch_greenhouse_jobs(TOKEN_ACME, OkBoard(<<GH_A, GH_B, GH_C>>))

\* C2: a run with "US only" and "Exclude staffing agencies" on that receives
\* exactly the records (A) Controls Engineer / Dallas, TX, (B) SDET / Austin, TX
\* and (C) Controls Manager / Toronto, ON of Acme Mfg ends with a result table
\* that holds (A) and no other record.
C2_OnlyRecordA ==
    (us_only /\ exclude_agencies /\ jobs = ThreeRecords) =>
        df = <<CleanRow(ThreeRecords[1])>>

\* C3: a record whose title carries only software or test-automation keywords,
\* "Software Test Engineer" or "QA Automation Engineer", is rejected by the
\* filter pipeline: no row of the result table has such a title.
C3_SoftwareTitlesRejected ==
    \A i \in 1..Len(df) :
        df[i].title \notin {normalize_text(AZ_TEST.title), normalize_text(LV_QA.text)}

\* C5: after any fetch run every row of the result table comes from a record
\* whose title is a target title, whose location is classified as US when
\* "US only" is on, and whose company is no staffing agency (with the extra
\* names of the sidebar) when "Exclude staffing agencies" is on.
C5_TableObeysOptions ==
    \A i \in 1..Len(df) :
        \E r \in SampleRecords :
            /\ CleanRow(r) = df[i]
            /\ PassesFilters(r, us_only, exclude_agencies, extra_agencies_set)

\* The records of the run that pass the filters of the sidebar, by index.
PassingJobs ==
    {i \in 1..Len(jobs) :
        PassesFilters(jobs[i], us_only, exclude_agencies, extra_agencies_set)}

\* The passing records that no earlier passing record equals in company, title,
\* location and url after trimming.
FirstOfKey ==
    {i \in PassingJobs :
        \A j \in PassingJobs :
            j < i => DedupeKey(CleanRow(jobs[j])) # DedupeKey(CleanRow(jobs[i]))}

\* Adzuna records come first, then the watchlist records, then the web records.
FeedRank(feed) ==
    IF feed = FEED_ADZUNA THEN 1 ELSE IF feed \in {FEED_GREENHOUSE, FEED_LEVER} THEN 2 ELSE 3

\* C6: after a fetch run no two rows of the result table agree in (company,
\* title, location, url); the feeds are concatenated Adzuna, watchlist, web;
\* and the table of a run that fetched records holds, for each key, the first
\* passing record in that order, the rows in the order of their records.
C6_KeepFirstNoDuplicates ==
    /\ \A i, j \in 1..Len(df) : i < j => DedupeKey(df[i]) # DedupeKey(df[j])
    /\ \A i, j \in 1..Len(jobs) : i < j => FeedRank(jobs[i].feed) <= FeedRank(jobs[j].feed)
    /\ jobs # <<>> =>
          /\ Len(df) = Cardinality(FirstOfKey)
          /\ \A i \in FirstOfKey :
                 df[Cardinality({j \in FirstOfKey : j <= i})] = CleanRow(jobs[i])

\* A run in which a watchlist or web record repeats the key of an earlier
\* record of another feed and is dropped.
C6_Witness ==
    /\ jobs # <<>>
    /\ \E i \in FirstOfKey, j \in PassingJobs \ FirstOfKey :
           /\ i < j
           /\ DedupeKey(CleanRow(jobs[i])) = DedupeKey(CleanRow(jobs[j]))
           /\ jobs[i].feed # jobs[j].feed
    /\ Len(df) >= 2

RowBag(rows) ==
    [r \in {rows[i] : i \in 1..Len(rows)} |-> Cardinality({i \in 1..Len(rows) : rows[i] = r})]

StoredTableStep ==
    /\ last_results' # last_results =>
           /\ fetches' = fetches + 1
           /\ df' # <<>>
           /\ last_results' = [set |-> TRUE, table |-> df']
    /\ fetches' = fetches + 1 /\ jobs' = <<>> =>
           /\ last_results' = last_results
           /\ df' = last_results.table
    /\ fetches' = fetches + 1 /\ jobs' # <<>> /\ PassingJobs' = {} =>
           /\ last_results' = last_results
           /\ df' = <<>>
           /\ shown' = <<>>

\* C17: across the fetch runs of a session the stored _last_results table is
\* written only by a run whose filtered, deduplicated table is not empty, so
\* it is never empty once set; a run that fetches no raw record leaves it
\* unchanged and displays it, and a run whose raw records are all removed by
\* the filters leaves it unchanged and displays an empty table.
C17_StoredTableNeverEmpty ==
    [][StoredTableStep /\ (last_results'.set => last_results'.table # <<>>)]_vars

\* A table is stored, and the run just made fetched records that the filters
\* all removed: it shows an empty table.
C17_Witness ==
    /\ last_results.set
    /\ fetches = 2
    /\ jobs # <<>>
    /\ PassingJobs = {}
    /\ df = <<>>

(***************************************************************************)
(* drop_duplicates on row lists, applied once and again to its own result. *)
(***************************************************************************)

\* Rows a list is made of.
MaxRows == 3

\* Cleaned rows of the sample records: the Controls Engineer posting of Acme
\* Mfg as Adzuna, Greenhouse and the career page give it (one key, three
\* rows), and two other postings.
DedupeRows ==
    { CleanRow(AdzunaRecord(AZ_CONTROLS)),
      CleanRow(GreenhouseRecord(TOKEN_ACME, GH_A)),
      CleanRow(WebRecord(LD_CONTROLS, URL_ACME_CAREERS)),
      CleanRow(GreenhouseRecord(TOKEN_ACME, GH_B)),
      CleanRow(LeverRecord(Strip(TOKEN_ZETA), LV_PLANT)) }

RowLists == UNION {[1..n -> DedupeRows] : n \in 0..MaxRows}

InitDedupe ==
    /\ dd_rows \in RowLists
    /\ dd_once = <<>>
    /\ dd_twice = <<>>
    /\ dd_step = 0
    /\ UsIdle /\ AgIdle /\ CfIdle /\ TtIdle /\ AppInit

DedupeOnce ==
    /\ dd_step = 0
    /\ dd_once' = drop_duplicates(dd_rows)
    /\ dd_step' = 1
    /\ UNCHANGED <<dd_rows, dd_twice, usVars, agVars, cfVars, ttVars, appVars>>

DedupeAgain ==
    /\ dd_step = 1
    /\ dd_twice' = drop_duplicates(dd_once)
    /\ dd_step' = 2
    /\ UNCHANGED <<dd_rows, dd_once, usVars, agVars, cfVars, ttVars, appVars>>

NextDedupe == DedupeOnce \/ DedupeAgain

SpecDedupe == InitDedupe /\ [][NextDedupe]_vars

\* C7: the dedupe on (company, title, location, url), keeping the first row of
\* a key, is idempotent: applied to a list it has already deduplicated it
\* returns that list unchanged.
C7_DedupeIdempotent == dd_step = 2 => dd_twice = dd_once

\* A list with three rows of one key, deduplicated to one row and then again.
C7_Witness ==
    /\ dd_step = 2
    /\ Len(dd_rows) = 3
    /\ Len(dd_once) = 1
    /\ \A i \in 1..3 : DedupeKey(dd_rows[i]) = DedupeKey(dd_rows[1])
    /\ dd_rows[1] # dd_rows[2]

(***************************************************************************)
(* Runs with web discovery alone (specification SpecCrawl): one role       *)
(* query, whose Bing answer lists up to MaxBingResults urls; the robots.txt *)
(* of every authority reads the same way within a run.                     *)
(***************************************************************************)

\* Urls in the Bing answer of a run.
MaxBingResults == 2

CrawlUrls ==
    {URL_ACME_CAREERS, URL_ACME_ABOUT, URL_GLOBEX_JOBS, URL_LINKEDIN,
     URL_LINKEDIN_PORT, URL_LINKEDIN_USER}

\* The GET of a career page: acme.com answers with its JSON-LD objects, the
\* other hosts with 404.
CrawlPages ==
    [u \in CrawlUrls |->
        IF u = URL_ACME_CAREERS
        THEN HtmlPage(200, <<LD_ORG, LD_CONTROLS, LD_TORONTO>>)
        ELSE HtmlPage(404, <<>>)]

CrawlWeb ==
    {[on |-> TRUE, bing |-> <<urls>>,
      robots |-> [d \in {Lower(Netloc(u)) : u \in CrawlUrls} |-> o],
      pages |-> CrawlPages] :
        urls \in UNION {[1..n -> CrawlUrls] : n \in 0..MaxBingResults},
        o \in RobotsOutcomes}

InitCrawl == AppInit /\ UsIdle /\ AgIdle /\ DdIdle /\ CfIdle /\ TtIdle

NextCrawl == \E web \in CrawlWeb : FetchJobs(AdzunaOff, WatchlistOff, web)

SpecCrawl == InitCrawl /\ [][NextCrawl]_vars

\* host is a blocked domain or a subdomain of one.
IsBlockedHost(host) ==
    \E bd \in BLOCKED_DOMAINS : host = bd \/ EndsWith(host, <<46>> \o bd)

\* C9: no robots.txt request and no career-page request of a run goes to a
\* host that is a blocked domain or a subdomain of one, whatever the form of
\* the url in the search results (a port or user-info in its authority too).
C9_NoRequestToBlockedHost ==
    \A i \in 1..Len(http_log) : ~IsBlockedHost(http_log[i].host)

\* C10: a career page is requested only when the robots.txt of its authority
\* has been obtained and allows the fetch; when robots.txt cannot be read or
\* forbids the url, the page is not requested.
C10_PageOnlyIfRobotsAllow ==
    \A i \in 1..Len(http_log) :
        http_log[i].kind = "page" =>
            /\ Lower(Netloc(http_log[i].target)) \in DOMAIN robots_cache
            /\ ParserCanFetch(robots_cache[Lower(Netloc(http_log[i].target))])

\* The JSON-LD objects on the pages of CrawlPages.
CrawlObjects == {LD_ORG, LD_CONTROLS, LD_TORONTO}

\* C12: every record the crawler emits comes from a JSON-LD object whose @type
\* is JobPosting, has a title that matches the target pattern and has a
\* location that the geography classifier takes as US, whatever the options
\* of the pipeline.
C12_WebRecordsClassified ==
    \A i \in 1..Len(jobs) :
        jobs[i].feed = FEED_WEB =>
            /\ \E o \in CrawlObjects, u \in CrawlUrls :
                   /\ o.type # None /\ Lower(o.type) = JOBPOSTING
                   /\ jobs[i] = WebRecord(o, u)
            /\ title_is_target(jobs[i].title)
            /\ is_us_location(jobs[i].location, jobs[i].location_area)

(***************************************************************************)
(* Runs with web discovery alone and the two sliders low (specification    *)
(* SpecCaps): one role query whose Bing answer lists up to MaxCapResults   *)
(* urls of acme.com and jobs.globex.com; every robots.txt allows the       *)
(* fetch.                                                                  *)
(***************************************************************************)

\* The highest slider position taken, and the urls in a Bing answer.
MaxSlider == 2
MaxCapResults == 3

CapUrls == {URL_ACME_CAREERS, URL_ACME_JOBS_1, URL_ACME_JOBS_2, URL_GLOBEX_JOBS}

\* The GET of a career page: /careers and /jobs/2 of acme.com carry a
\* JobPosting that is emitted, /jobs/1 carries none, globex answers 404.
CapPages ==
    [u \in CapUrls |->
        CASE u = URL_ACME_CAREERS -> HtmlPage(200, <<LD_ORG, LD_CONTROLS, LD_TORONTO>>)
          [] u = URL_ACME_JOBS_1  -> HtmlPage(200, <<LD_ORG>>)
          [] u = URL_ACME_JOBS_2  -> HtmlPage(200, <<LD_CONTROLS>>)
          [] OTHER                -> HtmlPage(404, <<>>)]

CapWeb ==
    {[on |-> TRUE, bing |-> <<urls>>,
      robots |-> [d \in {Lower(Netloc(u)) : u \in CapUrls} |-> "allow"],
      pages |-> CapPages] :
        urls \in UNION {[1..n -> CapUrls] : n \in 0..MaxCapResults}}

InitCaps ==
    /\ SessionInit /\ UsIdle /\ AgIdle /\ DdIdle /\ CfIdle /\ TtIdle
    /\ per_role \in 1..MaxSlider
    /\ per_domain_cap \in 1..MaxSlider

NextCaps == \E web \in CapWeb : FetchJobs(AdzunaOff, WatchlistOff, web)

SpecCaps == InitCaps /\ [][NextCaps]_vars

\* The page requests of the run, and those to the pages of one host
\* (urlparse(url).netloc.lower(), as web_discovery keys seen_per_domain).
PageVisits == {i \in 1..Len(http_log) : http_log[i].kind = "page"}
VisitsOf(host) == {i \in PageVisits : Lower(Netloc(http_log[i].target)) = host}

\* C11: in one web_discovery run no host has more than per_domain_cap of its
\* pages visited, whether or not the pages gave a posting, and the one role
\* query of the run has at most per_role candidate urls visited.
C11_VisitsWithinCaps ==
    /\ \A i \in PageVisits :
           Cardinality(VisitsOf(Lower(Netloc(http_log[i].target)))) <= per_domain_cap
    /\ Cardinality(PageVisits) <= per_role

(***************************************************************************)
(* Runs with Adzuna alone (specification SpecAdzuna): the role queries and *)
(* the "Adzuna pages" slider as the sidebar offers them, every page        *)
(* answering with no result but the first page of the first role query,    *)
(* and at most one page of the run failing.  Every _adzuna_page call is a  *)
(* request: the role queries of a run differ, and st.cache_data keeps an   *)
(* answer for an hour at most and keeps no failure.                        *)
(***************************************************************************)

SAFE_DAILY_BUDGET == 200

\* len(role_queries) with every role of both multiselects selected (the
\* default, and the list used when none is selected), and the top of the
\* "Adzuna pages" slider.
AllRoleQueries == 70
MaxAdzunaPages == 15

\* The sidebar settings taken, each the number of role queries and the slider
\* position: a few role queries with any position, and every role query with
\* the lowest and the default position.
AdzunaSettings ==
    ({1, 2, 14} \X {1, 2, 6, MaxAdzunaPages})
        \cup {<<AllRoleQueries, 1>>, <<AllRoleQueries, 6>>}

\* The answers of a run of n role queries with p pages each: page f[2] of role
\* query f[1] answers with bad, the first page of the run with one result.
AdzunaAnswers(n, p, f, bad) ==
    [q \in 1..n |-> [k \in 1..p |->
        IF <<q, k>> = f THEN bad
        ELSE IF <<q, k>> = <<1, 1>> THEN OkPage(<<AZ_CONTROLS>>)
        ELSE OkPage(<<>>)]]

\* The page that fails: none, an early one or the last one.
FailurePoints(n, p) == {<<0, 0>>, <<1, 1>>, <<1, 2>>, <<2, 1>>, <<n, p>>}

BadAnswers == {HttpError(401), HttpError(403), HttpError(429), HttpError(500), Failure}

AdzunaRuns ==
    UNION {{[on |-> TRUE, pages |-> s[2], resps |-> AdzunaAnswers(s[1], s[2], f, bad)] :
                f \in FailurePoints(s[1], s[2]), bad \in BadAnswers} :
           s \in AdzunaSettings}

InitAdzuna == AppInit /\ UsIdle /\ AgIdle /\ DdIdle /\ CfIdle /\ TtIdle

NextAdzuna == \E adz \in AdzunaRuns : FetchJobs(adz, WatchlistOff, WebOff)

SpecAdzuna == InitAdzuna /\ [][NextAdzuna]_vars

\* C13: the Adzuna page requests of a single fetch run never exceed
\* SAFE_DAILY_BUDGET, whatever role queries are selected and wherever the
\* "Adzuna pages" slider stands.
C13_AdzunaWithinBudget == Len(adzuna_calls) <= SAFE_DAILY_BUDGET

\* The statuses that set the quota flag.
QuotaStatuses == {401, 403, 429}

\* The records the pages that answered gave: the first page of the run gives
\* one record, every other page none.
RecordsOfCalls(calls) ==
    IF calls # <<>> /\ calls[1] = 200 THEN <<AdzunaRecord(AZ_CONTROLS)>> ELSE <<>>

\* After a run: a request that failed with 401, 403 or 429 is the last Adzuna
\* request of the run, the flag says whether this run had one, and the records
\* of the pages fetched before it are kept.
QuotaErrorEndsRun ==
    /\ \A i \in 1..Len(adzuna_calls) :
           adzuna_calls[i] \in QuotaStatuses => i = Len(adzuna_calls)
    /\ adzuna_quota_hit =
           (adzuna_calls # <<>> /\ adzuna_calls[Len(adzuna_calls)] \in QuotaStatuses)
    /\ jobs = RecordsOfCalls(adzuna_calls)

\* C16: within a fetch run, once an Adzuna page request has failed with HTTP
\* 401, 403 or 429, no further Adzuna request is issued for the role query or
\* for a later one, and the records of the pages fetched before are kept; the
\* next run starts with the flag reset and queries Adzuna again.
C16_QuotaErrorEndsAdzuna ==
    [][QuotaErrorEndsRun' /\ (adzuna_quota_hit => adzuna_calls' # <<>>)]_vars

\* A run of several role queries was ended by a quota error after its first
\* page had given a record, in a session whose earlier run also hit the quota
\* error and was followed by this one.
C16_Witness ==
    /\ fetches = 2
    /\ adzuna_quota_hit
    /\ Len(adzuna_calls) = 2
    /\ adzuna_calls[2] = 429
    /\ jobs = <<AdzunaRecord(AZ_CONTROLS)>>

(***************************************************************************)
(* Board answers of unexpected shape.  A board that answers 200 with a     *)
(* body that parses is [kind |-> "json", body |-> v], v being the parsed   *)
(* value: null, a string, a list of items, or an object given by the value *)
(* under the key the connector reads (JMissing: no such key) and by        *)
(* whether it has other keys.  An item of a list is a posting object (a    *)
(* record of the fields read) or one of these values.  OkBoard(jobs) stays *)
(* the answer of the expected shape.                                       *)
(***************************************************************************)
JNull == [t |-> "null"]
JStr == [t |-> "str"]
JMissing == [t |-> "missing"]
JList(items) == [t |-> "list", items |-> items]
JObject(list, other) == [t |-> "obj", list |-> list, other |-> other]
Payload(v) == [kind |-> "json", body |-> v]

\* isinstance(v, dict): a posting object or a JSON object.
IsDict(v) == "t" \notin DOMAIN v \/ v.t = "obj"

\* "for j in v: j.get(...)" raises: v is not iterable (TypeError), or one of
\* the values it yields is no dict (AttributeError).  An object yields its
\* keys and a string its characters.
LoopRaises(v) ==
    CASE v.t = "null" -> TRUE
      [] v.t = "str"  -> TRUE
      [] v.t = "list" -> \E i \in 1..Len(v.items) : ~IsDict(v.items[i])
      [] v.t = "obj"  -> v.list # JMissing \/ v.other
      [] OTHER        -> FALSE

\* fetch_greenhouse_jobs(token) raises: after the try block, data.get is
\* called on a value that is no dict, or the loop over data.get("jobs", [])
\* raises.
GreenhouseRaises(resp) ==
    IF resp.kind # "json" THEN FALSE
    ELSE IF resp.body.t # "obj" THEN TRUE
    ELSE resp.body.list # JMissing /\ LoopRaises(resp.body.list)

\* fetch_lever_jobs(token) raises: the loop over data raises.
LeverRaises(resp) == IF resp.kind # "json" THEN FALSE ELSE LoopRaises(resp.body)

\* The board call of one row of companies.csv raises.
BoardRaises(ats, tok, resp) ==
    /\ tok # EMPTY
    /\ \/ ats = ATS_GREENHOUSE /\ GreenhouseRaises(resp)
       \/ ats = ATS_LEVER /\ LeverRaises(resp)

\* The watchlist loop raises: no try block surrounds the connector calls.
WatchlistRaises(wl) ==
    /\ wl.on
    /\ \E i \in 1..Len(wl.rows) :
           BoardRaises(Lower(Strip(Or(wl.rows[i].ats, EMPTY))),
                       Strip(Or(wl.rows[i].token, EMPTY)), wl.resps[i])

\* "if run:" ended by the exception of a board call: the Adzuna loop a ran
\* before it; the jobs list is lost with the run, web discovery is not
\* reached, df stays the empty frame of line 514 and no table is shown.
Abort(a) ==
    /\ fetches < MaxFetches
    /\ fetches' = fetches + 1
    /\ adzuna_quota_hit' = a.quota
    /\ adzuna_calls' = a.calls
    /\ jobs' = <<>>
    /\ http_log' = <<>>
    /\ df' = <<>>
    /\ shown' = <<>>
    /\ run_error' = TRUE
    /\ UNCHANGED <<last_results, robots_cache, optionVars, sliderVars, usVars, agVars, ddVars, cfVars, ttVars>>

\* The script run with the button pressed: a board call raises and ends it,
\* or every connector returns.
FetchJobsRaising(adz, wl) == WatchlistRaises(wl) /\ Abort(RunAdzuna(adz))
FetchJobsReturning(adz, wl, web) == ~WatchlistRaises(wl) /\ FetchJobs(adz, wl, web)

(***************************************************************************)
(* Runs with every feed on (specification SpecFeeds): each feed answers as *)
(* expected or fails in one of the ways a feed can fail.                   *)
(***************************************************************************)

\* One role query, one page.
FeedsAdzuna ==
    {[on |-> TRUE, pages |-> 1, resps |-> <<<<r>>>>] :
        r \in {OkPage(<<>>), OkPage(<<AZ_CONTROLS>>), HttpError(429), HttpError(500), Failure}}

\* What a board can answer besides the expected shape: a transport failure,
\* an HTTP error status, and bodies of another shape: null, an object without
\* the key read, the empty object, null under the key read, a string among
\* the postings.
BadBoardAnswers ==
    {Failure, HttpError(404),
     Payload(JNull),
     Payload(JObject(JMissing, TRUE)),
     Payload(JObject(JMissing, FALSE)),
     Payload(JObject(JNull, FALSE)),
     Payload(JObject(JList(<<JStr>>), FALSE))}

\* Greenhouse expects an object with the list "jobs" (a list is of another
\* shape), Lever a list of postings.
GreenhouseAnswers ==
    BadBoardAnswers \cup {OkBoard(<<>>), OkBoard(<<GH_A>>), Payload(JList(<<GH_A>>))}
LeverAnswers ==
    BadBoardAnswers \cup {OkBoard(<<>>), OkBoard(<<LV_PLANT>>), Payload(JList(<<JStr>>))}

FeedsWatchlist ==
    {[on |-> TRUE, rows |-> COMPANIES_CSV, resps |-> <<g, l>>] :
        g \in GreenhouseAnswers, l \in LeverAnswers}

\* Bing finds the careers page of acme.com, whose robots.txt allows the
\* fetch; the page answers 200 or 500.
FeedsWeb ==
    {[on |-> TRUE, bing |-> <<<<URL_ACME_CAREERS>>>>,
      robots |-> (Lower(Netloc(URL_ACME_CAREERS)) :> "allow"),
      pages |-> (URL_ACME_CAREERS :> HtmlPage(s, <<LD_CONTROLS>>))] :
        s \in {200, 500}}

InitFeeds == AppInit /\ UsIdle /\ AgIdle /\ DdIdle /\ CfIdle /\ TtIdle

NextFeeds ==
    \E adz \in FeedsAdzuna, wl \in FeedsWatchlist :
        \/ \E web \in FeedsWeb : FetchJobsReturning(adz, wl, web)
        \/ FetchJobsRaising(adz, wl)

SpecFeeds == InitFeeds /\ [][NextFeeds]_vars

\* C14: no failure of a feed ends the run: no connector call raises, whatever
\* the feed answers (no answer, an error status, a body that does not parse
\* or a body of another shape than expected), and the feeds after it are
\* still processed, web discovery among them.
C14_NoFeedFailureIsFatal ==
    fetches > 0 => ~run_error /\ http_log # <<>>

(***************************************************************************)
(* can_fetch called on its own (specification SpecRobots): up to           *)
(* MaxCanFetchCalls calls in one process, each for a url of CrawlUrls; the *)
(* read of robots.txt, when the call makes one, ends in any of             *)
(* RobotsOutcomes.                                                         *)
(***************************************************************************)
MaxCanFetchCalls == 3

InitRobots == AppInit /\ UsIdle /\ AgIdle /\ DdIdle /\ CfIdle /\ TtIdle

\* can_fetch(url) has returned cf.
CanFetchReturns(url, cf) ==
    /\ cf_log' = Append(cf_log, [url |-> url, ok |-> cf.ok])
    /\ robots_cache' = cf.cache
    /\ http_log' = http_log \o cf.reqs

\* One call of can_fetch(url); outcome is what reading robots.txt does when
\* the authority of url is not in _robots_cache.
CallCanFetch(url, outcome) ==
    /\ Len(cf_log) < MaxCanFetchCalls
    /\ CanFetchReturns(url, can_fetch(url, robots_cache, (Lower(Netloc(url)) :> outcome)))
    /\ UNCHANGED <<optionVars, sliderVars, adzuna_quota_hit, last_results, fetches,
                   df, shown, jobs, adzuna_calls, run_error,
                   usVars, agVars, ddVars, ttVars>>

NextRobots == \E url \in CrawlUrls, outcome \in RobotsOutcomes : CallCanFetch(url, outcome)

SpecRobots == InitRobots /\ [][NextRobots]_vars

\* C15: in one process every call of can_fetch for the same url gives the
\* same answer, the call that reads robots.txt and fills the cache entry and
\* the later calls served from the entry alike, also when the read raised.
C15_CanFetchAnswerStable ==
    \A i, j \in 1..Len(cf_log) :
        cf_log[i].url = cf_log[j].url => cf_log[i].ok = cf_log[j].ok

(***************************************************************************)
(* title_is_target on the role phrases the sidebar offers as search        *)
(* queries (specification SpecTitle).                                      *)
(***************************************************************************)

CORE_ENGINEERING_ROLES ==
    << <<99, 111, 110, 116, 114, 111, 108, 115, 32, 101, 110, 103, 105, 110, 101, 101, 114>>,   \* "controls engineer"
       <<97, 117, 116, 111, 109, 97, 116, 105, 111, 110, 32, 101, 110, 103, 105, 110, 101, 101, 114>>,   \* "automation engineer"
       <<112, 114, 111, 99, 101, 115, 115, 32, 101, 110, 103, 105, 110, 101, 101, 114>>,   \* "process engineer"
       <<109, 97, 105, 110, 116, 101, 110, 97, 110, 99, 101, 32, 101, 110, 103, 105, 110, 101, 101, 114>>,   \* "maintenance engineer"
       <<105, 110, 100, 117, 115, 116, 114, 105, 97, 108, 32, 101, 110, 103, 105, 110, 101, 101, 114>>,   \* "industrial engineer"
       <<109, 101, 99, 104, 97, 110, 105, 99, 97, 108, 32, 101, 110, 103, 105, 110, 101, 101, 114>>,   \* "mechanical engineer"
       <<109, 97, 110, 117, 102, 97, 99, 116, 117, 114, 105, 110, 103, 32, 101, 110, 103, 105, 110, 101, 101, 114>>,   \* "manufacturing engineer"
       <<112, 108, 97, 110, 116, 32, 101, 110, 103, 105, 110, 101, 101, 114>>,   \* "plant engineer"
       <<114, 101, 108, 105, 97, 98, 105, 108, 105, 116, 121, 32, 101, 110, 103, 105, 110, 101, 101, 114>>,   \* "reliability engineer"
       <<99, 111, 110, 116, 105, 110, 117, 111, 117, 115, 32, 105, 109, 112, 114, 111, 118, 101, 109, 101, 110, 116, 32, 101, 110, 103, 105, 110, 101, 101, 114>>,   \* "continuous improvement engineer"
       <<113, 117, 97, 108, 105, 116, 121, 32, 101, 110, 103, 105, 110, 101, 101, 114>>,   \* "quality engineer"
       <<112, 114, 111, 100, 117, 99, 116, 105, 111, 110, 32, 101, 110, 103, 105, 110, 101, 101, 114>>,   \* "production engineer"
       <<112, 114, 111, 100, 117, 99, 116, 105, 111, 110, 32, 112, 114, 111, 99, 101, 115, 115, 32, 101, 110, 103, 105, 110, 101, 101, 114>>,   \* "production process engineer"
       <<109, 97, 110, 117, 102, 97, 99, 116, 117, 114, 105, 110, 103, 32, 112, 114, 111, 99, 101, 115, 115, 32, 101, 110, 103, 105, 110, 101, 101, 114>>,   \* "manufacturing process engineer"
       <<112, 114, 111, 99, 101, 115, 115, 32, 100, 101, 118, 101, 108, 111, 112, 109, 101, 110, 116, 32, 101, 110, 103, 105, 110, 101, 101, 114>>,   \* "process development engineer"
       <<109, 97, 110, 117, 102, 97, 99, 116, 117, 114, 105, 110, 103, 32, 115, 121, 115, 116, 101, 109, 115, 32, 101, 110, 103, 105, 110, 101, 101, 114>>,   \* "manufacturing systems engineer"
       <<105, 110, 100, 117, 115, 116, 114, 105, 97, 108, 105, 122, 97, 116, 105, 111, 110, 32, 101, 110, 103, 105, 110, 101, 101, 114>>,   \* "industrialization engineer"
       <<110, 101, 119, 32, 112, 114, 111, 100, 117, 99, 116, 32, 105, 110, 116, 114, 111, 100, 117, 99, 116, 105, 111, 110, 32, 101, 110, 103, 105, 110, 101, 101, 114>>,   \* "new product introduction engineer"
       <<110, 112, 105, 32, 101, 110, 103, 105, 110, 101, 101, 114>>,   \* "npi engineer"
       <<116, 111, 111, 108, 105, 110, 103, 32, 101, 110, 103, 105, 110, 101, 101, 114>>,   \* "tooling engineer"
       <<109, 111, 108, 100, 32, 116, 111, 111, 108, 105, 110, 103, 32, 101, 110, 103, 105, 110, 101, 101, 114>>,   \* "mold tooling engineer"
       <<100, 105, 101, 32, 101, 110, 103, 105, 110, 101, 101, 114>>,   \* "die engineer"
       <<119, 101, 108, 100, 32, 101, 110, 103, 105, 110, 101, 101, 114>>,   \* "weld engineer"
       <<119, 101, 108, 100, 105, 110, 103, 32, 101, 110, 103, 105, 110, 101, 101, 114>>,   \* "welding engineer"
       <<101, 113, 117, 105, 112, 109, 101, 110, 116, 32, 101, 110, 103, 105, 110, 101, 101, 114>>,   \* "equipment engineer"
       <<102, 97, 99, 105, 108, 105, 116, 105, 101, 115, 32, 101, 110, 103, 105, 110, 101, 101, 114>>,   \* "facilities engineer"
       <<112, 108, 97, 115, 116, 105, 99, 115, 32, 101, 110, 103, 105, 110, 101, 101, 114>>,   \* "plastics engineer"
       <<105, 110, 106, 101, 99, 116, 105, 111, 110, 32, 109, 111, 108, 100, 105, 110, 103, 32, 101, 110, 103, 105, 110, 101, 101, 114>>,   \* "injection molding engineer"
       <<112, 97, 99, 107, 97, 103, 105, 110, 103, 32, 101, 110, 103, 105, 110, 101, 101, 114>>,   \* "packaging engineer"
       <<116, 101, 115, 116, 32, 101, 110, 103, 105, 110, 101, 101, 114>>,   \* "test engineer"
       <<109, 97, 110, 117, 102, 97, 99, 116, 117, 114, 105, 110, 103, 32, 116, 101, 115, 116, 32, 101, 110, 103, 105, 110, 101, 101, 114>>,   \* "manufacturing test engineer"
       <<109, 101, 99, 104, 97, 116, 114, 111, 110, 105, 99, 115, 32, 101, 110, 103, 105, 110, 101, 101, 114>>,   \* "mechatronics engineer"
       <<109, 101, 116, 104, 111, 100, 115, 32, 101, 110, 103, 105, 110, 101, 101, 114>>,   \* "methods engineer"
       <<108, 101, 97, 110, 32, 109, 97, 110, 117, 102, 97, 99, 116, 117, 114, 105, 110, 103, 32, 101, 110, 103, 105, 110, 101, 101, 114>>,   \* "lean manufacturing engineer"
       <<115, 117, 115, 116, 97, 105, 110, 105, 110, 103, 32, 101, 110, 103, 105, 110, 101, 101, 114>> >>   \* "sustaining engineer"

MANAGER_VARIANTS ==
    << <<99, 111, 110, 116, 114, 111, 108, 115, 32, 101, 110, 103, 105, 110, 101, 101, 114, 105, 110, 103, 32, 109, 97, 110, 97, 103, 101, 114>>,   \* "controls engineering manager"
       <<97, 117, 116, 111, 109, 97, 116, 105, 111, 110, 32, 109, 97, 110, 97, 103, 101, 114>>,   \* "automation manager"
       <<99, 111, 110, 116, 114, 111, 108, 115, 32, 109, 97, 110, 97, 103, 101, 114>>,   \* "controls manager"
       <<112, 114, 111, 99, 101, 115, 115, 32, 101, 110, 103, 105, 110, 101, 101, 114, 105, 110, 103, 32, 109, 97, 110, 97, 103, 101, 114>>,   \* "process engineering manager"
       <<109, 97, 105, 110, 116, 101, 110, 97, 110, 99, 101, 32, 109, 97, 110, 97, 103, 101, 114>>,   \* "maintenance manager"
       <<109, 97, 105, 110, 116, 101, 110, 97, 110, 99, 101, 32, 101, 110, 103, 105, 110, 101, 101, 114, 105, 110, 103, 32, 109, 97, 110, 97, 103, 101, 114>>,   \* "maintenance engineering manager"
       <<105, 110, 100, 117, 115, 116, 114, 105, 97, 108, 32, 101, 110, 103, 105, 110, 101, 101, 114, 105, 110, 103, 32, 109, 97, 110, 97, 103, 101, 114>>,   \* "industrial engineering manager"
       <<109, 101, 99, 104, 97, 110, 105, 99, 97, 108, 32, 101, 110, 103, 105, 110, 101, 101, 114, 105, 110, 103, 32, 109, 97, 110, 97, 103, 101, 114>>,   \* "mechanical engineering manager"
       <<109, 97, 110, 117, 102, 97, 99, 116, 117, 114, 105, 110, 103, 32, 101, 110, 103, 105, 110, 101, 101, 114, 105, 110, 103, 32, 109, 97, 110, 97, 103, 101, 114>>,   \* "manufacturing engineering manager"
       <<109, 97, 110, 117, 102, 97, 99, 116, 117, 114, 105, 110, 103, 32, 109, 97, 110, 97, 103, 101, 114>>,   \* "manufacturing manager"
       <<112, 108, 97, 110, 116, 32, 101, 110, 103, 105, 110, 101, 101, 114, 105, 110, 103, 32, 109, 97, 110, 97, 103, 101, 114>>,   \* "plant engineering manager"
       <<112, 108, 97, 110, 116, 32, 109, 97, 110, 97, 103, 101, 114>>,   \* "plant manager"
       <<114, 101, 108, 105, 97, 98, 105, 108, 105, 116, 121, 32, 101, 110, 103, 105, 110, 101, 101, 114, 105, 110, 103, 32, 109, 97, 110, 97, 103, 101, 114>>,   \* "reliability engineering manager"
       <<114, 101, 108, 105, 97, 98, 105, 108, 105, 116, 121, 32, 109, 97, 110, 97, 103, 101, 114>>,   \* "reliability manager"
       <<99, 111, 110, 116, 105, 110, 117, 111, 117, 115, 32, 105, 109, 112, 114, 111, 118, 101, 109, 101, 110, 116, 32, 109, 97, 110, 97, 103, 101, 114>>,   \* "continuous improvement manager"
       <<113, 117, 97, 108, 105, 116, 121, 32, 101, 110, 103, 105, 110, 101, 101, 114, 105, 110, 103, 32, 109, 97, 110, 97, 103, 101, 114>>,   \* "quality engineering manager"
       <<113, 117, 97, 108, 105, 116, 121, 32, 109, 97, 110, 97, 103, 101, 114>>,   \* "quality manager"
       <<112, 114, 111, 100, 117, 99, 116, 105, 111, 110, 32, 101, 110, 103, 105, 110, 101, 101, 114, 105, 110, 103, 32, 109, 97, 110, 97, 103, 101, 114>>,   \* "production engineering manager"
       <<112, 114, 111, 100, 117, 99, 116, 105, 111, 110, 32, 109, 97, 110, 97, 103, 101, 114>>,   \* "production manager"
       <<112, 114, 111, 99, 101, 115, 115, 32, 100, 101, 118, 101, 108, 111, 112, 109, 101, 110, 116, 32, 109, 97, 110, 97, 103, 101, 114>>,   \* "process development manager"
       <<109, 97, 110, 117, 102, 97, 99, 116, 117, 114, 105, 110, 103, 32, 115, 121, 115, 116, 101, 109, 115, 32, 109, 97, 110, 97, 103, 101, 114>>,   \* "manufacturing systems manager"
       <<105, 110, 100, 117, 115, 116, 114, 105, 97, 108, 105, 122, 97, 116, 105, 111, 110, 32, 109, 97, 110, 97, 103, 101, 114>>,   \* "industrialization manager"
       <<110, 112, 105, 32, 109, 97, 110, 97, 103, 101, 114>>,   \* "npi manager"
       <<110, 101, 119, 32, 112, 114, 111, 100, 117, 99, 116, 32, 105, 110, 116, 114, 111, 100, 117, 99, 116, 105, 111, 110, 32, 109, 97, 110, 97, 103, 101, 114>>,   \* "new product introduction manager"
       <<116, 111, 111, 108, 105, 110, 103, 32, 109, 97, 110, 97, 103, 101, 114>>,   \* "tooling manager"
       <<109, 111, 108, 100, 105, 110, 103, 32, 109, 97, 110, 97, 103, 101, 114>>,   \* "molding manager"
       <<119, 101, 108, 100, 32, 101, 110, 103, 105, 110, 101, 101, 114, 105, 110, 103, 32, 109, 97, 110, 97, 103, 101, 114>>,   \* "weld engineering manager"
       <<101, 113, 117, 105, 112, 109, 101, 110, 116, 32, 101, 110, 103, 105, 110, 101, 101, 114, 105, 110, 103, 32, 109, 97, 110, 97, 103, 101, 114>>,   \* "equipment engineering manager"
       <<102, 97, 99, 105, 108, 105, 116, 105, 101, 115, 32, 101, 110, 103, 105, 110, 101, 101, 114, 105, 110, 103, 32, 109, 97, 110, 97, 103, 101, 114>>,   \* "facilities engineering manager"
       <<112, 97, 99, 107, 97, 103, 105, 110, 103, 32, 101, 110, 103, 105, 110, 101, 101, 114, 105, 110, 103, 32, 109, 97, 110, 97, 103, 101, 114>>,   \* "packaging engineering manager"
       <<116, 101, 115, 116, 32, 101, 110, 103, 105, 110, 101, 101, 114, 105, 110, 103, 32, 109, 97, 110, 97, 103, 101, 114>>,   \* "test engineering manager"
       <<109, 101, 99, 104, 97, 116, 114, 111, 110, 105, 99, 115, 32, 109, 97, 110, 97, 103, 101, 114>>,   \* "mechatronics manager"
       <<109, 101, 116, 104, 111, 100, 115, 32, 101, 110, 103, 105, 110, 101, 101, 114, 105, 110, 103, 32, 109, 97, 110, 97, 103, 101, 114>>,   \* "methods engineering manager"
       <<108, 101, 97, 110, 32, 109, 97, 110, 117, 102, 97, 99, 116, 117, 114, 105, 110, 103, 32, 109, 97, 110, 97, 103, 101, 114>>,   \* "lean manufacturing manager"
       <<115, 117, 115, 116, 97, 105, 110, 105, 110, 103, 32, 101, 110, 103, 105, 110, 101, 101, 114, 105, 110, 103, 32, 109, 97, 110, 97, 103, 101, 114>> >>   \* "sustaining engineering manager"

\* The role phrases offered: the options of the two multiselects, and the
\* queries of a run when none is selected.
RoleQueries ==
    {CORE_ENGINEERING_ROLES[i] : i \in 1..Len(CORE_ENGINEERING_ROLES)}
        \cup {MANAGER_VARIANTS[i] : i \in 1..Len(MANAGER_VARIANTS)}

InitTitle ==
    /\ tt_title \in RoleQueries
    /\ tt_called = FALSE
    /\ tt_result = FALSE
    /\ UsIdle /\ AgIdle /\ DdIdle /\ CfIdle /\ AppInit

CallTitleIsTarget ==
    /\ ~tt_called
    /\ tt_called' = TRUE
    /\ tt_result' = title_is_target(tt_title)
    /\ UNCHANGED <<tt_title, usVars, agVars, ddVars, cfVars, appVars>>

SpecTitle == InitTitle /\ [][CallTitleIsTarget]_vars

\* C18: every role phrase offered as a search query, of CORE_ENGINEERING_ROLES
\* and of MANAGER_VARIANTS, is accepted by title_is_target, so that the strict
\* title filter keeps a posting whose title is the phrase.
C18_RolePhrasesAreTargets == tt_called => tt_result
(***************************************************************************)
(* is_us_location on the locations a feed can deliver.                     *)
(***************************************************************************)

LocationDisplays ==
    LET LocationCities ==
            { <<68, 97, 108, 108, 97, 115>>,   \* "Dallas"
              <<65, 117, 115, 116, 105, 110>>,   \* "Austin"
              <<84, 111, 114, 111, 110, 116, 111>>,   \* "Toronto"
              <<66, 117, 115, 97, 110>>,   \* "Busan"
              <<>> }   \* ""
        LocationSeparators ==
            { <<44, 32>>,   \* ", "
              <<32>>,   \* " "
              <<44>> }   \* ","
        LocationRegions ==
            { <<84, 88>>,   \* "TX"
              <<116, 120>>,   \* "tx"
              <<84, 101, 120, 97, 115>>,   \* "Texas"
              <<84, 69, 88, 65, 83>>,   \* "TEXAS"
              <<78, 89>>,   \* "NY"
              <<78, 101, 119, 32, 89, 111, 114, 107>>,   \* "New York"
              <<79, 78>>,   \* "ON"
              <<79, 110, 116, 97, 114, 105, 111>>,   \* "Ontario"
              <<85, 83, 65>>,   \* "USA"
              <<85, 110, 105, 116, 101, 100, 32, 83, 116, 97, 116, 101, 115>>,   \* "United States"
              <<85, 83>>,   \* "US"
              <<85, 84, 88>>,   \* "UTX"
              <<75, 111, 114, 101, 97>>,   \* "Korea"
              <<>> }   \* ""
    IN  {c \o s \o r : c \in LocationCities, s \in LocationSeparators, r \in LocationRegions}

LocationAreas ==
    { <<>>,
      <<<<85, 83>>, <<84, 101, 120, 97, 115>>, <<68, 97, 108, 108, 97, 115, 32, 67, 111, 117, 110, 116, 121>>>>,   \* ["US", "Texas", "Dallas County"]
      <<<<67, 97, 110, 97, 100, 97>>, <<79, 110, 116, 97, 114, 105, 111>>>> }   \* ["Canada", "Ontario"]

InitUS ==
    /\ us_display \in LocationDisplays
    /\ us_area \in LocationAreas
    /\ us_called = FALSE
    /\ us_result = FALSE
    /\ AgIdle /\ DdIdle /\ CfIdle /\ TtIdle /\ AppInit

CallIsUsLocation ==
    /\ ~us_called
    /\ us_called' = TRUE
    /\ us_result' = is_us_location(us_display, us_area)
    /\ UNCHANGED <<us_display, us_area, agVars, ddVars, cfVars, ttVars, appVars>>

SpecUS == InitUS /\ [][CallIsUsLocation]_vars

\* "United States", "USA"
UNITED_STATES_TEXT == <<85, 110, 105, 116, 101, 100, 32, 83, 116, 97, 116, 101, 115>>
USA_TEXT == <<85, 83, 65>>

\* display names a US place: a full state name (in any case), a state code as a
\* standalone token, or "United States" / "USA".
HasUsSignal(display) ==
    \/ \E state \in US_STATE_NAMES : Contains(state, Lower(display))
    \/ \E abbr \in US_STATE_ABBR : SearchWord(abbr, display)
    \/ Contains(UNITED_STATES_TEXT, display)
    \/ Contains(USA_TEXT, display)

\* C1: every location that contains a full US state name, a two-letter state
\* code as a standalone token, or "United States"/"USA" is classified as US,
\* whatever the area list.
C1_UsSignalIsUs ==
    us_called => (HasUsSignal(us_display) => us_result)

(***************************************************************************)
(* is_staffing_agency on company names and extra sets.                     *)
(***************************************************************************)

CompanyNames ==
    LET CompanyPrefixes ==
            { <<>>,   \* ""
              <<84, 104, 101, 32>>,   \* "The "
              <<120>> }   \* "x"
        CompanyCores ==
            { <<65, 99, 109, 101, 32, 77, 102, 103>>,   \* "Acme Mfg"
              <<82, 97, 110, 100, 115, 116, 97, 100>>,   \* "Randstad"
              <<82, 65, 78, 68, 83, 84, 65, 68>>,   \* "RANDSTAD"
              <<75, 101, 108, 108, 121, 32, 83, 101, 114, 118, 105, 99, 101, 115>>,   \* "Kelly Services"
              <<84, 114, 105, 45, 83>>,   \* "Tri-S"
              <<71, 108, 111, 98, 101, 120>>,   \* "Globex"
              <<73, 78, 73, 84, 69, 67, 72>>,   \* "INITECH"
              <<65, 99, 109, 101, 32, 83, 116, 97, 102, 102, 105, 110, 103>>,   \* "Acme Staffing"
              <<82, 101, 99, 114, 117, 105, 116, 101, 114, 115>>,   \* "Recruiters"
              <<65, 103, 101, 110, 99, 121>>,   \* "Agency"
              <<84, 111, 112, 32, 84, 97, 108, 101, 110, 116>>,   \* "Top Talent"
              <<32>>,   \* " "
              <<>> }   \* ""
        CompanySuffixes ==
            { <<>>,   \* ""
              <<32, 73, 110, 99>>,   \* " Inc"
              <<115>> }   \* "s"
    IN  {p \o c \o s : p \in CompanyPrefixes, c \in CompanyCores, s \in CompanySuffixes}

ExtraAgencySets ==
    { {},   \* no extra names
      {<<>>},   \* {""}
      {<<32, 32>>},   \* {"  "}
      {<<32, 32, 71, 108, 111, 98, 101, 120, 32>>},   \* {"  Globex "}
      {<<105, 110, 105, 116, 101, 99, 104>>, <<32>>},   \* {"initech", " "}
      {<<67, 121, 98, 101, 114, 67, 111, 100, 101, 114, 115>>, <<75, 101, 108, 108, 121, 32, 83, 101, 114, 118, 105, 99, 101, 115>>} }   \* {"CyberCoders", "Kelly Services"}

InitAgency ==
    /\ ag_name \in CompanyNames
    /\ ag_extra \in ExtraAgencySets
    /\ ag_called = FALSE
    /\ ag_result = FALSE
    /\ UsIdle /\ DdIdle /\ CfIdle /\ TtIdle /\ AppInit

CallIsStaffingAgency ==
    /\ ~ag_called
    /\ ag_called' = TRUE
    /\ ag_result' = is_staffing_agency(ag_name, ag_extra)
    /\ UNCHANGED <<ag_name, ag_extra, usVars, ddVars, cfVars, ttVars, appVars>>

SpecAgency == InitAgency /\ [][CallIsStaffingAgency]_vars

\* The entries the claim lets flag a name: the default blocklist, the non-blank
\* extra entries trimmed and lower-cased, and the four generic terms.
AgencyTerms(extra) ==
    DEFAULT_AGENCY_BLOCKLIST
        \cup {Lower(Strip(x)) : x \in {y \in extra : \E i \in 1..Len(y) : ~IsSpace(y[i])}}
        \cup GENERIC_AGENCY_TERMS

\* C4: a non-empty company name is flagged exactly when, compared
\* case-insensitively, it contains a default blocklist entry, a non-blank extra
\* entry (trimmed, lower-cased) or a generic term; a blank extra entry never
\* causes a match.
C4_AgencyFlagged ==
    (ag_called /\ ag_name # EMPTY) =>
        (ag_result <=> \E t \in AgencyTerms(ag_extra) : Contains(t, Lower(ag_name)))

\* A name flagged through an extra entry alone, beside a blank extra entry.
C4_Witness ==
    /\ ag_called
    /\ ag_result
    /\ \E x \in ag_extra : Strip(x) = EMPTY
    /\ ~is_staffing_agency(ag_name, {})

====
